---------------------------- MODULE Spec2Model ----------------------------
(***************************************************************************)
(* Model of the SQL safety guardrails and of the request flows of the      *)
(* Pharma Analyst Bot backend (backend/app).                               *)
(*                                                                         *)
(* SQL text is a sequence of characters of three kinds: whitespace, the    *)
(* statement separator `;', and a fragment of SQL that holds the           *)
(* expression tree the sqlglot parser builds from it.  Trees are generic   *)
(* nodes [t, name, num, args]; args is the ordered list of (arg, child)    *)
(* pairs of the sqlglot expression.                                        *)
(***************************************************************************)
EXTENDS Integers, Sequences, FiniteSets, TLC

(***************************************************************************)
(* Bounds of the model.                                                    *)
(***************************************************************************)
\* projection items plus table references of one generated SELECT
MaxItems == 3
\* nesting depth of sub-statements below the outermost statement
MaxDepth == 2
\* characters (whitespace or `;') after the last SQL fragment of a text
MaxTail == 2
\* words of a question handed directly to an intent check
MaxWords == 3
\* validation calls in flight at the same time
MaxCalls == 2
\* status and token events one workflow task emits
MaxEmits == 4

(***************************************************************************)
(* Expression trees (sqlglot.exp).                                         *)
(***************************************************************************)
N(t, name, num, args) == [t |-> t, name |-> name, num |-> num, args |-> args]
A(arg, node) == [arg |-> arg, node |-> node]

\* Python None where an expression is expected
NoneNode == N("None", "", 0, <<>>)
\* outcome of sqlglot.parse_one raising
ParseError == N("ParseError", "", 0, <<>>)

Lit(kind, n) == N("Literal", kind, n, <<>>)
LimitN(e) == N("Limit", "", 0, <<A("expression", e)>>)
Col(c) == N("Column", c, 0, <<>>)
StarN == N("Star", "*", 0, <<>>)
\* alias.* parses to a Column whose `this' is a Star
QStar == N("Column", "*", 0, <<A("this", StarN)>>)
Anon(f) == N("Anonymous", f, 0, <<>>)
Tbl(n) == N("Table", n, 0, <<>>)
SubqN(stmt, lim) ==
    N("Subquery", "", 0,
      <<A("this", stmt)>> \o (IF lim.t = "None" THEN <<>> ELSE <<A("limit", lim)>>))
Dml(t, table) == N(t, "", 0, <<A("this", Tbl(table))>>)

\* Select(...) as the parser builds it: expressions, from, joins, limit, with
SelectN(exprs, sources, lim, cte) ==
    N("Select", "", 0,
      [i \in 1..Len(exprs) |-> A("expressions", exprs[i])]
      \o [i \in 1..Len(sources) |->
            IF i = 1 THEN A("from", N("From", "", 0, <<A("this", sources[1])>>))
            ELSE A("joins", N("Join", "", 0, <<A("this", sources[i])>>))]
      \o (IF lim.t = "None" THEN <<>> ELSE <<A("limit", lim)>>)
      \o (IF cte.t = "None" THEN <<>>
          ELSE <<A("with", N("With", "", 0,
                    <<A("expressions", N("CTE", "", 0, <<A("this", cte)>>))>>))>>))

\* node[arg] for a single-valued arg (None when absent)
Arg(node, arg) ==
    LET idx == {i \in 1..Len(node.args) : node.args[i].arg = arg}
    IN IF idx = {} THEN NoneNode
       ELSE node.args[CHOOSE i \in idx : \A j \in idx : i <= j].node

\* node.args[arg] for a list-valued arg, in order
RECURSIVE ArgsOf(_, _)
ArgsOf(args, arg) ==
    IF args = <<>> THEN <<>>
    ELSE (IF Head(args).arg = arg THEN <<Head(args).node>> ELSE <<>>)
         \o ArgsOf(Tail(args), arg)

Expressions(node) == ArgsOf(node.args, "expressions")

\* Expression.walk(bfs=True): every node with its path, breadth first
RECURSIVE Bfs(_)
Bfs(queue) ==
    IF queue = <<>> THEN <<>>
    ELSE LET e == Head(queue)
             kids == [i \in 1..Len(e.node.args) |->
                        [node |-> e.node.args[i].node, path |-> Append(e.path, i)]]
         IN <<e>> \o Bfs(Tail(queue) \o kids)

Walk(tree) == Bfs(<<[node |-> tree, path |-> <<>>]>>)

\* Expression.find_all(type): the walk restricted to one node type
RECURSIVE FilterType(_, _)
FilterType(entries, types) ==
    IF entries = <<>> THEN <<>>
    ELSE (IF Head(entries).node.t \in types THEN <<Head(entries)>> ELSE <<>>)
         \o FilterType(Tail(entries), types)

FindAll(tree, types) == FilterType(Walk(tree), types)

\* the tree with the node at `path' replaced
RECURSIVE SetAt(_, _, _)
SetAt(tree, path, new) ==
    IF path = <<>> THEN new
    ELSE [tree EXCEPT !.args[Head(path)].node = SetAt(@, Tail(path), new)]

\* Expression.set(arg, value) on a node that carries or lacks the arg
SetArg(node, arg, value) ==
    LET idx == {i \in 1..Len(node.args) : node.args[i].arg = arg}
    IN IF idx = {} THEN [node EXCEPT !.args = Append(@, A(arg, value))]
       ELSE [node EXCEPT !.args[CHOOSE i \in idx : TRUE].node = value]


(***************************************************************************)
(* SQL text.                                                               *)
(***************************************************************************)
Ws == [c |-> "ws", ast |-> NoneNode]
Semi == [c |-> "semi", ast |-> NoneNode]
Frag(ast) == [c |-> "sql", ast |-> ast]

\* str.strip(): surrounding whitespace removed
RECURSIVE LStrip(_)
LStrip(s) == IF s # <<>> /\ Head(s).c = "ws" THEN LStrip(Tail(s)) ELSE s

RECURSIVE RStrip(_)
RStrip(s) ==
    IF s # <<>> /\ s[Len(s)].c = "ws" THEN RStrip(SubSeq(s, 1, Len(s) - 1)) ELSE s

Strip(s) == RStrip(LStrip(s))

\* a variant of rstrip(';') that removes one trailing `;' only
RStripSemi_One(s) ==
    IF s # <<>> /\ s[Len(s)].c = "semi" THEN SubSeq(s, 1, Len(s) - 1) ELSE s

\* str.rstrip(';'): every trailing `;' removed, and nothing else
RECURSIVE RStripSemi(_)
RStripSemi(s) ==
    IF s # <<>> /\ s[Len(s)].c = "semi" THEN RStripSemi(SubSeq(s, 1, Len(s) - 1))
    ELSE s

\* ';' in sql
HasSemi(s) == \E i \in 1..Len(s) : s[i].c = "semi"

\* the tokens of the first statement of a text (the tokenizer drops whitespace)
RECURSIVE FirstChunk(_)
FirstChunk(s) ==
    IF s = <<>> \/ Head(s).c = "semi" THEN <<>>
    ELSE (IF Head(s).c = "ws" THEN <<>> ELSE <<Head(s)>>) \o FirstChunk(Tail(s))

\* sqlglot.parse_one(sql, read='postgres'): the tree of the first statement
ParseOne(s) ==
    LET chunk == FirstChunk(s)
    IN IF Len(chunk) = 1 /\ chunk[1].ast.t # "Unparsable" THEN chunk[1].ast
       ELSE ParseError

\* the order in which the parser stores the args of a node
ArgRank(arg) ==
    CASE arg = "this" -> 1
      [] arg = "expressions" -> 2
      [] arg = "expression" -> 3
      [] arg = "from" -> 4
      [] arg = "joins" -> 5
      [] arg = "limit" -> 6
      [] OTHER -> 7

\* stable sort of args by parser order
RECURSIVE InsertArg(_, _)
InsertArg(sorted, a) ==
    IF sorted = <<>> THEN <<a>>
    ELSE IF ArgRank(a.arg) < ArgRank(Head(sorted).arg) THEN <<a>> \o sorted
    ELSE <<Head(sorted)>> \o InsertArg(Tail(sorted), a)

RECURSIVE SortArgs(_)
SortArgs(args) ==
    IF args = <<>> THEN <<>>
    ELSE InsertArg(SortArgs(SubSeq(args, 1, Len(args) - 1)), args[Len(args)])

\* the tree a parser builds from the generated text of `node'
RECURSIVE Canon(_)
Canon(node) ==
    LET kids == [i \in 1..Len(node.args) |->
                   A(node.args[i].arg, Canon(node.args[i].node))]
    IN [node EXCEPT !.args =
          IF node.t \in {"Select", "Subquery"} THEN SortArgs(kids) ELSE kids]

\* Expression.sql(dialect='postgres'): one statement, no padding, no `;'
Sql(parsed) == <<Frag(Canon(parsed))>>

\* str.lower() / str.upper() on the identifiers of the model
Lower(s) ==
    CASE s = "Audit_Log" -> "audit_log"
      [] s = "Product" -> "product"
      [] s = "PG_SLEEP" -> "pg_sleep"
      [] s = "Pg_Sleep" -> "pg_sleep"
      [] s = "Name" -> "name"
      [] OTHER -> s

Upper(s) ==
    CASE s = "pg_sleep" -> "PG_SLEEP"
      [] s = "Pg_Sleep" -> "PG_SLEEP"
      [] s = "sleep" -> "SLEEP"
      [] s = "audit_log" -> "AUDIT_LOG"
      [] s = "Audit_Log" -> "AUDIT_LOG"
      [] s = "product" -> "PRODUCT"
      [] s = "Product" -> "PRODUCT"
      [] s = "secret_table" -> "SECRET_TABLE"
      [] s = "name" -> "NAME"
      [] s = "my_func" -> "MY_FUNC"
      [] OTHER -> s

(***************************************************************************)
(* Configuration and schema.                                               *)
(***************************************************************************)
\* Settings.default_limit and Settings.max_limit of the reference deployment
default_limit == 200
max_limit == 200

\* ALLOWED_SCHEMA.keys() and BLOCKED_TABLES
ALLOWED_SCHEMA == {"product", "territory", "hcp", "sales"}
BLOCKED_TABLES == {"audit_log"}

(***************************************************************************)
(* guardrails/sql_policy.py                                                *)
(***************************************************************************)
\* an exception or list entry: the violation kind, what it names, and a detail
NoErr == [kind |-> "ok", arg |-> "", why |-> ""]
Err(kind, arg) == [kind |-> kind, arg |-> arg, why |-> ""]

\* a call that returned `sql' or raised SQLPolicyError(err)
Returned(sql) == [ok |-> TRUE, sql |-> sql, err |-> NoErr]
Raised(err) == [ok |-> FALSE, sql |-> <<>>, err |-> err]

forbidden_types == {"Insert", "Update", "Delete", "Drop", "Create"}

dangerous_functions ==
    {"PG_SLEEP", "SLEEP", "BENCHMARK", "LOAD_FILE", "INTO OUTFILE",
     "INTO DUMPFILE", "EXEC", "EXECUTE"}

\* a variant that compares the function name as written, without upper()
RECURSIVE FirstDanger_CaseSensitive(_)
FirstDanger_CaseSensitive(entries) ==
    IF entries = <<>> THEN NoErr
    ELSE LET node == Head(entries).node
         IN IF node.t \in forbidden_types
            THEN Err("forbidden-statement-type", node.t)
            ELSE IF node.t = "Anonymous" /\ node.name \in dangerous_functions
            THEN Err("forbidden-function", node.name)
            ELSE FirstDanger_CaseSensitive(Tail(entries))

\* the first node of the walk that raises, if any
RECURSIVE FirstDanger(_)
FirstDanger(entries) ==
    IF entries = <<>> THEN NoErr
    ELSE LET node == Head(entries).node
         IN IF node.t \in forbidden_types
            THEN Err("forbidden-statement-type", node.t)
            ELSE IF node.t = "Anonymous" /\ Upper(node.name) \in dangerous_functions
            THEN Err("forbidden-function", Upper(node.name))
            ELSE FirstDanger(Tail(entries))

\* a variant that inspects the outermost node and does not walk the tree
check_for_dangerous_operations_TopOnly(parsed) ==
    FirstDanger(<<[node |-> parsed, path |-> <<>>]>>)

check_for_dangerous_operations(parsed) == FirstDanger(Walk(parsed))

\* Query.limit(n): the query (a Select or a Subquery) with LIMIT n set
LimitBuilder(parsed, n) == SetArg(parsed, "limit", LimitN(Lit("int", n)))

\* a variant that sets every integer LIMIT to the maximum
enforce_limit_AlwaysMax(parsed, dflt, max) ==
    LET found == FindAll(parsed, {"Limit"})
    IN IF found = <<>> THEN [err |-> NoErr, parsed |-> LimitBuilder(parsed, dflt)]
       ELSE LET limit_expr == Arg(found[1].node, "expression")
            IN IF limit_expr.t = "Literal"
               THEN IF limit_expr.name # "int"
                    THEN [err |-> Err("invalid-limit", "non-integer"), parsed |-> parsed]
                    ELSE IF limit_expr.num < 0
                    THEN [err |-> Err("invalid-limit", "negative"), parsed |-> parsed]
                    ELSE [err |-> NoErr,
                          parsed |-> SetAt(parsed, found[1].path,
                                       SetArg(found[1].node, "expression", Lit("int", max)))]
               ELSE IF limit_expr.t \in {"Parameter", "Placeholder"}
               THEN [err |-> Err("invalid-limit", "parameterized"), parsed |-> parsed]
               ELSE [err |-> Err("invalid-limit", "expression"), parsed |-> parsed]

\* a variant that leaves a LIMIT above the maximum as written
enforce_limit_Uncapped(parsed, dflt, max) ==
    LET found == FindAll(parsed, {"Limit"})
    IN IF found = <<>> THEN [err |-> NoErr, parsed |-> LimitBuilder(parsed, dflt)]
       ELSE LET limit_expr == Arg(found[1].node, "expression")
            IN IF limit_expr.t = "Literal"
               THEN IF limit_expr.name # "int"
                    THEN [err |-> Err("invalid-limit", "non-integer"), parsed |-> parsed]
                    ELSE IF limit_expr.num < 0
                    THEN [err |-> Err("invalid-limit", "negative"), parsed |-> parsed]
                    ELSE [err |-> NoErr, parsed |-> parsed]
               ELSE IF limit_expr.t \in {"Parameter", "Placeholder"}
               THEN [err |-> Err("invalid-limit", "parameterized"), parsed |-> parsed]
               ELSE [err |-> Err("invalid-limit", "expression"), parsed |-> parsed]

enforce_limit(parsed, dflt, max) ==
    LET found == FindAll(parsed, {"Limit"})
    IN IF found = <<>> THEN [err |-> NoErr, parsed |-> LimitBuilder(parsed, dflt)]
       ELSE LET limit_clause == found[1]
                limit_expr == Arg(limit_clause.node, "expression")
            IN IF limit_expr.t = "Literal"
               THEN IF limit_expr.name # "int"
                    THEN [err |-> Err("invalid-limit", "non-integer"), parsed |-> parsed]
                    ELSE IF limit_expr.num < 0
                    THEN [err |-> Err("invalid-limit", "negative"), parsed |-> parsed]
                    ELSE IF limit_expr.num > max
                    THEN [err |-> NoErr,
                          parsed |-> SetAt(parsed, limit_clause.path,
                                       SetArg(limit_clause.node, "expression",
                                              Lit("int", max)))]
                    ELSE [err |-> NoErr, parsed |-> parsed]
               ELSE IF limit_expr.t \in {"Parameter", "Placeholder"}
               THEN [err |-> Err("invalid-limit", "parameterized"), parsed |-> parsed]
               ELSE [err |-> Err("invalid-limit", "expression"), parsed |-> parsed]

\* the statement-type test of validate_sql: a Select, or a Subquery whose
\* `this' is a Select
\* a variant that looks through any number of wrappers
RECURSIVE TopLevelAllowed_AnyDepth(_)
TopLevelAllowed_AnyDepth(parsed) ==
    IF parsed.t = "Select" THEN TRUE
    ELSE IF parsed.t = "Subquery" THEN TopLevelAllowed_AnyDepth(Arg(parsed, "this"))
    ELSE FALSE

TopLevelAllowed(parsed) ==
    \/ parsed.t = "Select"
    \/ parsed.t = "Subquery" /\ Arg(parsed, "this").t = "Select"

\* a variant that goes on to the limit step after a dangerous operation
validate_sql_IgnoresDanger(sql, settings) ==
    LET s == RStripSemi(Strip(sql))
    IN IF HasSemi(s) THEN Raised(Err("multi-statement", ""))
       ELSE LET parsed == ParseOne(s)
            IN IF parsed.t = "ParseError" THEN Raised(Err("syntax-error", ""))
               ELSE IF ~TopLevelAllowed(parsed)
               THEN Raised(Err("forbidden-statement-type", "top-level"))
               ELSE LET l == enforce_limit(parsed, settings.default_limit,
                                           settings.max_limit)
                    IN IF l.err.kind # "ok" THEN Raised(l.err)
                       ELSE Returned(Sql(l.parsed))

\* a variant that enforces the limit before it looks at the statement type
validate_sql_LimitFirst(sql, settings) ==
    LET s == RStripSemi(Strip(sql))
    IN IF HasSemi(s) THEN Raised(Err("multi-statement", ""))
       ELSE LET parsed == ParseOne(s)
                l == enforce_limit(parsed, settings.default_limit, settings.max_limit)
                d == check_for_dangerous_operations(parsed)
            IN IF parsed.t = "ParseError" THEN Raised(Err("syntax-error", ""))
               ELSE IF l.err.kind # "ok" THEN Raised(l.err)
               ELSE IF ~TopLevelAllowed(parsed)
               THEN Raised(Err("forbidden-statement-type", "top-level"))
               ELSE IF d.kind # "ok" THEN Raised(d)
               ELSE Returned(Sql(l.parsed))

validate_sql(sql, settings) ==
    LET s == RStripSemi(Strip(sql))
    IN IF HasSemi(s) THEN Raised(Err("multi-statement", ""))
       ELSE LET parsed == ParseOne(s)
            IN IF parsed.t = "ParseError" THEN Raised(Err("syntax-error", ""))
               ELSE IF ~TopLevelAllowed(parsed)
               THEN Raised(Err("forbidden-statement-type", "top-level"))
               ELSE LET d == check_for_dangerous_operations(parsed)
                    IN IF d.kind # "ok" THEN Raised(d)
                       ELSE LET l == enforce_limit(parsed, settings.default_limit,
                                                   settings.max_limit)
                            IN IF l.err.kind # "ok" THEN Raised(l.err)
                               ELSE Returned(Sql(l.parsed))


\* is_safe_query: (True, None) when validate_sql returns, (False, message)
\* when it raises SQLPolicyError
is_safe_query(sql, settings) ==
    LET r == validate_sql(sql, settings)
    IN IF r.ok THEN [safe |-> TRUE, err |-> NoErr] ELSE [safe |-> FALSE, err |-> r.err]

(***************************************************************************)
(* guardrails/validators.py                                                *)
(***************************************************************************)
validate_select_only(sql) ==
    LET sql_clean == RStripSemi(Strip(sql))
    IN IF HasSemi(sql_clean) THEN Err("multi-statement", "")
       ELSE LET parsed == ParseOne(sql_clean)
            IN IF parsed.t = "ParseError" THEN Err("syntax-error", "")
               ELSE IF parsed.t # "Select"
               THEN Err("forbidden-statement-type", "top-level")
               ELSE LET bad == FindAll(parsed, forbidden_types)
                    IN IF bad # <<>>
                       THEN Err("forbidden-statement-type", bad[1].node.t)
                       ELSE NoErr

\* some expression of some SELECT of the tree is an exp.Star
HasStarProjection(parsed) ==
    LET selects == FindAll(parsed, {"Select"})
    IN \E i \in 1..Len(selects) :
         LET exprs == Expressions(selects[i].node)
         IN \E j \in 1..Len(exprs) : exprs[j].t = "Star"

validate_no_select_star(sql) ==
    LET parsed == ParseOne(RStripSemi(Strip(sql)))
    IN IF parsed.t = "ParseError" THEN NoErr
       ELSE IF HasStarProjection(parsed) THEN Err("select-star", "")
       ELSE NoErr

\* a variant that consults the allowlist before the blocklist
TableError_AllowlistFirst(table) ==
    LET table_name == Lower(table.name)
    IN IF table_name \notin {Lower(t) : t \in ALLOWED_SCHEMA}
       THEN <<[kind |-> "disallowed-table", arg |-> table_name, why |-> "unknown"]>>
       ELSE IF table_name \in BLOCKED_TABLES
       THEN <<[kind |-> "disallowed-table", arg |-> table_name, why |-> "blocked"]>>
       ELSE <<>>

\* a variant that knows the blocklist only
TableError_BlocklistOnly(table) ==
    LET table_name == Lower(table.name)
    IN IF table_name \in BLOCKED_TABLES
       THEN <<[kind |-> "disallowed-table", arg |-> table_name, why |-> "blocked"]>>
       ELSE <<>>

\* the error of one table reference, if any: blocklist first, then allowlist
TableError(table) ==
    LET table_name == Lower(table.name)
    IN IF table_name \in BLOCKED_TABLES
       THEN <<[kind |-> "disallowed-table", arg |-> table_name, why |-> "blocked"]>>
       ELSE IF table_name \notin {Lower(t) : t \in ALLOWED_SCHEMA}
       THEN <<[kind |-> "disallowed-table", arg |-> table_name, why |-> "unknown"]>>
       ELSE <<>>

RECURSIVE TableErrors(_)
TableErrors(tables) ==
    IF tables = <<>> THEN <<>>
    ELSE TableError(Head(tables).node) \o TableErrors(Tail(tables))

validate_allowlist(sql) ==
    LET parsed == ParseOne(RStripSemi(Strip(sql)))
    IN IF parsed.t = "ParseError"
       THEN <<[kind |-> "syntax-error", arg |-> "", why |-> "parse"]>>
       ELSE TableErrors(FindAll(parsed, {"Table"}))

\* the denylisted names that occur in an upper-cased identifier of the model
UpperSubstrings(name) ==
    CASE name = "PG_SLEEP" -> {"PG_SLEEP", "SLEEP"}
      [] name = "SLEEP" -> {"SLEEP"}
      [] OTHER -> {}

\* func in sql.upper(), for the raw text
RECURSIVE TextHas(_, _)
TextHas(sql, func) ==
    IF sql = <<>> THEN FALSE
    ELSE \/ /\ Head(sql).c = "sql"
            /\ LET w == Walk(Head(sql).ast)
               IN \E i \in 1..Len(w) : func \in UpperSubstrings(Upper(w[i].node.name))
         \/ TextHas(Tail(sql), func)

dangerous_patterns ==
    <<"PG_SLEEP", "SLEEP", "BENCHMARK", "LOAD_FILE", "INTO OUTFILE", "INTO DUMPFILE">>

validate_no_dangerous_patterns(sql) ==
    LET hits == {i \in 1..Len(dangerous_patterns) : TextHas(sql, dangerous_patterns[i])}
    IN IF hits = {} THEN NoErr
       ELSE Err("forbidden-function",
                dangerous_patterns[CHOOSE i \in hits : \A j \in hits : i <= j])

\* an exception of the first three validators as a list of zero or one error
AsList(e) == IF e.kind = "ok" THEN <<>> ELSE <<e>>

validate_sql_complete(sql) ==
    LET errors == AsList(validate_select_only(sql))
                  \o AsList(validate_no_select_star(sql))
                  \o AsList(validate_no_dangerous_patterns(sql))
                  \o validate_allowlist(sql)
    IN [is_valid |-> Len(errors) = 0, errors |-> errors]


(***************************************************************************)
(* Inputs: the statements, texts and configurations validation is given.  *)
(***************************************************************************)
SeqsUpTo(S, n) == UNION {[1..k -> S] : k \in 1..n}

ProjItems == {Col("name"), StarN, QStar, Anon("pg_sleep")}
TableNames == {"product", "Audit_Log", "secret_table"}
LimitValues == {0, 50, 150, 1000}

NoLimit == NoneNode
IntLimits == {LimitN(Lit("int", n)) : n \in LimitValues}
BadLimits ==
    {LimitN(N("Neg", "", 0, <<A("this", Lit("int", 1))>>)),
     LimitN(N("Placeholder", "", 0, <<>>)),
     LimitN(N("Parameter", "", 0, <<>>)),
     LimitN(Lit("float", 1)),
     LimitN(N("Add", "", 0, <<A("this", Lit("int", 1)), A("expression", Lit("int", 1))>>))}
Limits == {NoLimit} \cup IntLimits \cup BadLimits

Plain == SelectN(<<Col("name")>>, <<Tbl("product")>>, NoLimit, NoneNode)

\* statements that occur below the outermost one
FlatSelects ==
    {SelectN(<<Col("name")>>, <<Tbl("product")>>, l, NoneNode) :
        l \in {NoLimit, LimitN(Lit("int", 50)), LimitN(Lit("int", 1000))}}
    \cup {SelectN(<<StarN>>, <<Tbl("Audit_Log")>>, NoLimit, NoneNode),
          SelectN(<<QStar>>, <<Tbl("product")>>, NoLimit, NoneNode),
          SelectN(<<Anon("Pg_Sleep")>>, <<Tbl("product")>>, NoLimit, NoneNode)}
InnerDml == {Dml("Delete", "product"), Dml("Insert", "product"), Dml("Update", "product")}

RECURSIVE InnerSelects(_)
InnerSelects(d) ==
    IF d <= 1 THEN FlatSelects
    ELSE FlatSelects
         \cup {SelectN(<<Col("name")>>, <<SubqN(s, NoLimit)>>, NoLimit, NoneNode) :
                 s \in InnerSelects(d - 1)}
         \cup {SelectN(<<Col("name")>>, <<Tbl("product")>>, NoLimit, x) : x \in InnerDml}

\* how a sub-statement hangs below a SELECT: not at all, as a subquery in
\* FROM, or as a common table expression
Nests ==
    {[from |-> <<>>, cte |-> NoneNode]}
    \cup {[from |-> <<SubqN(s, NoLimit)>>, cte |-> NoneNode] : s \in InnerSelects(MaxDepth)}
    \cup {[from |-> <<>>, cte |-> x] : x \in InnerDml}

MkSelect(exprs, tables, lim, nest) ==
    SelectN(exprs, nest.from \o [i \in 1..Len(tables) |-> Tbl(tables[i])], lim, nest.cte)

\* SELECTs of every shape, with no limit or one above every maximum
ShapeSelects ==
    {MkSelect(p[1], p[2], l, n) :
        p \in {q \in SeqsUpTo(ProjItems, MaxItems - 1) \X SeqsUpTo(TableNames, MaxItems - 1) :
                 Len(q[1]) + Len(q[2]) <= MaxItems},
        l \in {NoLimit, LimitN(Lit("int", 1000))}, n \in Nests}

\* one plain SELECT with every limit and every nesting
LimitSelects == {MkSelect(<<Col("name")>>, <<"product">>, l, n) : l \in Limits, n \in Nests}

\* a SELECT over a subquery, each with a limit of its own
NestedLimitSelects ==
    {SelectN(<<Col("name")>>,
             <<SubqN(SelectN(<<Col("name")>>, <<Tbl("product")>>, inner, NoneNode), NoLimit)>>,
             outer, NoneNode) :
        inner \in BadLimits \cup {LimitN(Lit("int", 1000))},
        outer \in {NoLimit, LimitN(Lit("int", 50)), LimitN(Lit("int", 1000))}}

\* statements that call a denylisted function and break another rule too
CallingStatements ==
    {N("Union", "", 0,
       <<A("this", SelectN(<<Anon("pg_sleep")>>, <<Tbl("product")>>, NoLimit, NoneNode)),
         A("expression", Plain)>>),
     SelectN(<<Col("name")>>,
             <<SubqN(SelectN(<<Anon("pg_sleep")>>, <<Tbl("product")>>, NoLimit, NoneNode),
                     NoLimit)>>,
             NoLimit, Dml("Delete", "product")),
     SelectN(<<Anon("sleep"), Anon("Pg_Sleep")>>, <<Tbl("product")>>, NoLimit, NoneNode),
     SelectN(<<Anon("PG_SLEEP")>>, <<Tbl("product")>>, LimitN(Lit("float", 1)), NoneNode)}

\* statements whose top-level node is not a SELECT
OtherStatements ==
    {Dml(t, "product") : t \in forbidden_types}
    \cup {SubqN(s, l) : s \in FlatSelects, l \in {NoLimit, LimitN(Lit("int", 1000))}}
    \cup {SubqN(SubqN(Plain, NoLimit), NoLimit), SubqN(Dml("Delete", "product"), NoLimit),
          N("Union", "", 0, <<A("this", Plain), A("expression", Plain)>>),
          N("Unparsable", "", 0, <<>>)}

\* statements that are not a SELECT and carry a limit that is no integer
BadLimitStatements ==
    {N("Union", "", 0,
       <<A("this", Plain), A("expression", Plain),
         A("limit", LimitN(N("Neg", "", 0, <<A("this", Lit("int", 1))>>)))>>),
     SubqN(SubqN(Plain, NoLimit), LimitN(Lit("float", 1))),
     SubqN(Dml("Delete", "product"), LimitN(N("Placeholder", "", 0, <<>>)))}

\* padding and separators around the statements of a text
Tails == {<<>>} \cup SeqsUpTo({Ws, Semi}, MaxTail)
Heads == {<<>>, <<Ws>>}
PaddedBase == {Plain, Dml("Drop", "product"), N("Unparsable", "", 0, <<>>)}
PaddedTexts ==
    {h \o <<Frag(a)>> \o t : h \in Heads, a \in PaddedBase, t \in Tails}
    \cup {<<Frag(a), Semi>> \o m \o <<Frag(b)>> \o t :
            a \in PaddedBase, b \in PaddedBase, m \in Heads, t \in Tails}
    \cup {<<Semi, Frag(Plain)>>, <<>>, <<Ws>>, <<Semi>>}

ReferenceSettings == [default_limit |-> default_limit, max_limit |-> max_limit]
Configs == {[default_limit |-> d, max_limit |-> m] : d \in {50, default_limit}, m \in {100, max_limit}}

\* (text, settings) pairs handed to the validators
ValidationInputs ==
    {[sql |-> <<Frag(a)>>, settings |-> ReferenceSettings] :
        a \in ShapeSelects \cup OtherStatements \cup NestedLimitSelects
              \cup CallingStatements \cup BadLimitStatements}
    \cup {[sql |-> <<Frag(a)>>, settings |-> c] : a \in LimitSelects, c \in Configs}
    \cup {[sql |-> x, settings |-> ReferenceSettings] : x \in PaddedTexts}

(***************************************************************************)
(* Questions and the intent checks (validators.py, workflow.py).           *)
(***************************************************************************)
\* a question: its words, and whether it ends in `?', `.' or `!'
Q(words, ended) == [words |-> words, ended |-> ended]

Questions ==
    {Q(<<"top", "products", "by", "revenue">>, TRUE),
     Q(<<"show", "sales", "by", "territory">>, FALSE),
     Q(<<"Dump", "everything", "now">>, FALSE),
     Q(<<"give", "me", "all", "the", "data">>, TRUE),
     Q(<<"list", "the", "Passwords">>, FALSE),
     Q(<<"show", "Audit_Log", "rows", "please">>, FALSE),
     Q(<<"sales", "help">>, FALSE),
     Q(<<"list", "products">>, FALSE),
     Q(<<"show", "me", "something">>, FALSE)}

\* words of the questions handed directly to the intent checks
Vocabulary ==
    {"Dump", "all", "allowed", "overall", "records", "the", "data",
     "Passwords", "Secret", "api", "key", "show"}
IntentQuestions == {Q(w, FALSE) : w \in {<<>>} \cup SeqsUpTo(Vocabulary, MaxWords)}

LowerWord(w) ==
    CASE w = "Dump" -> "dump"
      [] w = "Passwords" -> "passwords"
      [] w = "Secret" -> "secret"
      [] w = "Audit_Log" -> "audit_log"
      [] OTHER -> w

\* a lower-case word as the run of pieces the listed patterns can match
Pieces(w) ==
    CASE w = "passwords" -> <<"password", "s">>
      [] w = "products" -> <<"product", "s">>
      [] w = "territory" -> <<"territor", "y">>
      [] w = "allowed" -> <<"all", "owed">>
      [] w = "overall" -> <<"over", "all">>
      [] OTHER -> <<w>>

\* the lower-case text of a run of words: their pieces, one space between words
RECURSIVE LowerText(_)
LowerText(words) ==
    IF words = <<>> THEN <<>>
    ELSE Pieces(LowerWord(Head(words)))
         \o (IF Tail(words) = <<>> THEN <<>> ELSE <<" ">> \o LowerText(Tail(words)))

\* Python's `p in t' on strings
IsSubstring(p, t) ==
    \E i \in 0..(Len(t) - Len(p)) : SubSeq(t, i + 1, i + Len(p)) = p

\* pattern in question.lower()
ContainsPattern(q, pattern) == IsSubstring(LowerText(pattern), LowerText(q.words))

dump_patterns ==
    <<<<"dump", "everything">>, <<"dump", "all">>, <<"export", "all">>,
      <<"give", "me", "everything">>, <<"all", "the", "data">>, <<"entire", "database">>,
      <<"all", "records">>, <<"all", "rows">>, <<"download", "everything">>,
      <<"extract", "all">>>>

sensitive_patterns ==
    <<[pattern |-> <<"password">>, reason |-> "I cannot provide password information."],
      [pattern |-> <<"credential">>, reason |-> "I cannot provide credential information."],
      [pattern |-> <<"api", "key">>, reason |-> "I cannot provide API key information."],
      [pattern |-> <<"secret">>, reason |-> "I cannot provide secret information."],
      [pattern |-> <<"audit_log">>, reason |-> "Access to audit logs is restricted."]>>

NoReason == ""
DumpReason == "I can't export entire datasets. Please ask a specific question about the data"

check_dump_request(q) ==
    IF \E i \in 1..Len(dump_patterns) : ContainsPattern(q, dump_patterns[i])
    THEN [hit |-> TRUE, reason |-> DumpReason]
    ELSE [hit |-> FALSE, reason |-> NoReason]

\* a variant that lets the last matching pattern of the list decide
check_sensitive_request_LastMatch(q) ==
    LET hits == {i \in 1..Len(sensitive_patterns) : ContainsPattern(q, sensitive_patterns[i].pattern)}
    IN IF hits = {} THEN [hit |-> FALSE, reason |-> NoReason]
       ELSE [hit |-> TRUE,
             reason |-> sensitive_patterns[CHOOSE i \in hits : \A j \in hits : i >= j].reason]

check_sensitive_request(q) ==
    LET hits == {i \in 1..Len(sensitive_patterns) : ContainsPattern(q, sensitive_patterns[i].pattern)}
    IN IF hits = {} THEN [hit |-> FALSE, reason |-> NoReason]
       ELSE [hit |-> TRUE,
             reason |-> sensitive_patterns[CHOOSE i \in hits : \A j \in hits : i <= j].reason]

\* ' '.join(question.split()), with '?' appended unless it ends in ?, . or !
Normalize(q) == [q EXCEPT !.ended = TRUE]

vague_patterns == {"help", "something", "anything", "whatever", "stuff"}
WordCount(q) == Len(q.words)
IsVague(q) == \E p \in vague_patterns : ContainsPattern(q, <<p>>)

(***************************************************************************)
(* The collaborators: generator, execution layer, stub router.             *)
(***************************************************************************)
NoneText == [some |-> FALSE, text |-> <<>>]
Some(text) == [some |-> TRUE, text |-> text]
\* Python truthiness of an Optional[str]
Truthy(x) == x.some /\ x.text # <<>>

\* what generate_sql / fix_sql may return: SQL text of any kind, or ""
GenTexts ==
    {<<Frag(Plain)>>,
     <<Frag(SelectN(<<Col("name")>>, <<Tbl("product")>>, LimitN(Lit("int", 1000)), NoneNode)), Semi>>,
     <<Frag(SelectN(<<StarN>>, <<Tbl("Audit_Log")>>, NoLimit, NoneNode))>>,
     <<Frag(Dml("Drop", "product"))>>,
     <<>>}

\* what the database does with a statement: rows, or an error
ExecOutcomes ==
    {[ok |-> TRUE, rows |-> 0, error |-> NoErr],
     [ok |-> TRUE, rows |-> 2, error |-> NoErr],
     [ok |-> TRUE, rows |-> 500, error |-> NoErr],
     [ok |-> FALSE, rows |-> 0, error |-> Err("execution", "timeout")],
     [ok |-> FALSE, rows |-> 0, error |-> Err("execution", "generic")]}

(***************************************************************************)
(* State.                                                                  *)
(***************************************************************************)
VARIABLES
    sql_in,         \* the text under validation
    settings,       \* get_settings()
    vphase,         \* "input", "policy" (validate_sql ran), "complete"
    vs,             \* outcome of validate_sql(sql_in)
    vc,             \* outcome of validate_sql_complete(sql_in)
    sq,             \* outcome of is_safe_query(sql_in)
    vs2,            \* outcome of validate_sql on the query vs returned
    flow,           \* "workflow" (run_agent), "streaming", "chat", or "none"
    pc,             \* the node or step the request is at
    question,       \* user_question / message
    llm_available,  \* is_llm_available()
    st,             \* AgentState / the locals of the runner / of chat()
    result,         \* the response handed back
    exec_log,       \* every text handed to the execution layer, in order
    gen_log,        \* every call of the generator, in order
    val_log,        \* every call of a validator, in order
    iphase,         \* "input", "dump", "sensitive": the intent checks run so far
    dump_result,    \* outcome of check_dump_request(question)
    sensitive_result, \* outcome of check_sensitive_request(question)
    svc,            \* a call of the service layer: function, arguments, the fault met
    epc,            \* the line the service call is at
    session,        \* the database session the call works on
    db_log,         \* the statements run on the session, in order
    ret,            \* how the service call ended
    calls,          \* the calls in flight (validations, requests): position, outcome
    frames,         \* the local variables of the calls in flight
    schema,         \* the module-level ALLOWED_SCHEMA and BLOCKED_TABLES
    schema_result,  \* outcome of validate_schema_references(sql_in)
    events,         \* runner.events, the queue between workflow task and generator
    stream,         \* the events the response has sent, in order
    task,           \* the workflow task: what it will emit, how far it is, how it ends
    sse,            \* the generator stream_with_session_id / stream_chat_response
    chat_session,   \* table chat_session: the owner of each session, by serial id
    chat_message,   \* table chat_message: the stored messages, in order
    reply,          \* the last request to a session endpoint and what it did
    audit_log,      \* the calls of insert_audit_log, in order
    user_session,   \* table user_session: the login sessions, by id
    clock,          \* NOW() of the database, in days
    history,        \* the day create_session made each id, the ids delete_session removed
    auth            \* the last authentication call and its outcome

vars == <<sql_in, settings, vphase, vs, vc, sq, vs2,
          flow, pc, question, llm_available, st, result, exec_log, gen_log, val_log,
          iphase, dump_result, sensitive_result,
          svc, epc, session, db_log, ret,
          calls, frames, schema,
          schema_result, events, stream, task, sse,
          chat_session, chat_message, reply, audit_log,
          user_session, clock, history, auth>>
vvars == <<sql_in, settings, vphase, vs, vc, sq, vs2>>
fvars == <<flow, pc, question, llm_available, st, result, exec_log, gen_log, val_log>>
ivars == <<iphase, dump_result, sensitive_result>>
dvars == <<svc, epc, session, db_log, ret>>
cvars == <<calls, frames, schema>>
svars == <<events, stream, task, sse>>
hvars == <<chat_session, chat_message, reply>>
lvars == <<user_session, clock, history, auth>>
xvars == <<schema_result, svars, hvars, audit_log, lvars>>

Pending == Raised(Err("pending", ""))
NotRun == [is_valid |-> FALSE, errors |-> <<>>]
NotAsked == [safe |-> FALSE, err |-> Err("pending", "")]
NoVerdict == [hit |-> FALSE, reason |-> "pending"]

NoAnswer == [kind |-> "", reason |-> NoReason, errors |-> <<>>]
Answer(kind, reason, errors) == [kind |-> kind, reason |-> reason, errors |-> errors]

\* initial_state of run_agent; the runner and chat() use the fields they have
InitialState ==
    [normalized_question |-> Q(<<>>, FALSE),
     ambiguity_flag |-> FALSE,
     follow_up_questions |-> FALSE,
     refusal_flag |-> FALSE,
     refusal_reason |-> NoReason,
     sql_candidate |-> NoneText,
     validation_errors |-> <<>>,
     attempts_remaining |-> 3,
     attempt |-> 0,
     rows |-> 0,
     row_count |-> 0,
     execution_error |-> NoErr,
     answer |-> NoAnswer,
     validated |-> NoneText]

NoResult == [done |-> FALSE, answer |-> NoAnswer, sql |-> NoneText, rows |-> 0, row_count |-> 0]

IdleRequest ==
    /\ flow = "none" /\ pc = "idle" /\ llm_available = FALSE
    /\ st = InitialState /\ result = NoResult
    /\ exec_log = <<>> /\ gen_log = <<>> /\ val_log = <<>>

IdleFlow == IdleRequest /\ question = Q(<<>>, FALSE)

IdleValidate ==
    /\ sql_in = <<>> /\ settings = ReferenceSettings /\ vphase = "idle"
    /\ vs = Pending /\ vc = NotRun /\ sq = NotAsked /\ vs2 = Pending

IdleIntent == iphase = "idle" /\ dump_result = NoVerdict /\ sensitive_result = NoVerdict

\* a session in the pool, with the server's default statement_timeout
PooledSession == [pooled |-> TRUE, statement_timeout |-> 0]
NoCall == [fn |-> "none", row_cap |-> 0, timeout_seconds |-> 0, db_rows |-> 0, fault |-> "none"]
NotEnded == [status |-> "pending", rows |-> 0, row_count |-> 0, message |-> "", internal |-> FALSE]
ModuleSchema == [allowed |-> ALLOWED_SCHEMA, blocked |-> BLOCKED_TABLES]
IdleCalls == calls = <<>> /\ frames = <<>> /\ schema = ModuleSchema
NotValidated == [is_valid |-> FALSE, violations |-> <<Err("pending", "")>>]
NoTask == [emits |-> 0, outcome |-> "none", status |-> "none", emitted |-> 0]
NoGenerator == [pc |-> "none", fault |-> "none"]
IdleStream == events = <<>> /\ stream = <<>> /\ task = NoTask /\ sse = NoGenerator
IdleSchema == schema_result = NotValidated
NoReply == [op |-> "none", user_id |-> 0, session_id |-> 0, status |-> "none",
            ran_workflow |-> FALSE, messages |-> <<>>]
IdleHistory == chat_session = <<>> /\ chat_message = <<>> /\ reply = NoReply
IdleAudit == audit_log = <<>>
NoAuth == [op |-> "none", session_id |-> 0, ok |-> FALSE, user_id |-> 0, deleted |-> FALSE]
IdleLogin ==
    /\ user_session = <<>> /\ clock = 0
    /\ history = [created |-> <<>>, deleted |-> {}]
    /\ auth = NoAuth
IdleExtras == IdleSchema /\ IdleStream /\ IdleHistory /\ IdleAudit /\ IdleLogin

IdleServices ==
    /\ svc = NoCall /\ epc = "idle" /\ session = PooledSession
    /\ db_log = <<>> /\ ret = NotEnded
    /\ IdleCalls

InitValidate ==
    /\ \E i \in ValidationInputs : sql_in = i.sql /\ settings = i.settings
    /\ vphase = "input"
    /\ vs = Pending
    /\ vc = NotRun
    /\ sq = NotAsked
    /\ vs2 = Pending
    /\ IdleFlow
    /\ IdleIntent
    /\ IdleServices
    /\ IdleExtras

\* a caller runs validate_sql on the text
CallValidateSql ==
    /\ vphase = "input"
    /\ vs' = validate_sql(sql_in, settings)
    /\ vphase' = "policy"
    /\ UNCHANGED <<sql_in, settings, vc, sq, vs2>>
    /\ UNCHANGED <<fvars, ivars, dvars, cvars, xvars>>

\* a caller runs validate_sql_complete on the same text
CallValidateSqlComplete ==
    /\ vphase = "policy"
    /\ vc' = validate_sql_complete(sql_in)
    /\ vphase' = "complete"
    /\ UNCHANGED <<sql_in, settings, vs, sq, vs2>>
    /\ UNCHANGED <<fvars, ivars, dvars, cvars, xvars>>

NextValidate == CallValidateSql \/ CallValidateSqlComplete

SpecValidate == InitValidate /\ [][NextValidate]_vars

\* a caller asks is_safe_query about the text
CallIsSafeQuery ==
    /\ vphase = "policy" /\ sq = NotAsked
    /\ sq' = is_safe_query(sql_in, settings)
    /\ UNCHANGED <<sql_in, settings, vphase, vs, vc, vs2>>
    /\ UNCHANGED <<fvars, ivars, dvars, cvars, xvars>>

\* a caller runs validate_sql again, on the query validate_sql returned
Revalidate ==
    /\ vphase = "policy" /\ vs.ok
    /\ vs2' = validate_sql(vs.sql, settings)
    /\ vphase' = "again"
    /\ UNCHANGED <<sql_in, settings, vs, vc, sq>>
    /\ UNCHANGED <<fvars, ivars, dvars, cvars, xvars>>

NextPolicy == CallValidateSql \/ CallIsSafeQuery \/ Revalidate

SpecPolicy == InitValidate /\ [][NextPolicy]_vars

(***************************************************************************)
(* The intent checks called directly on a question.                        *)
(***************************************************************************)
InitIntent ==
    /\ question \in IntentQuestions
    /\ iphase = "input"
    /\ dump_result = NoVerdict
    /\ sensitive_result = NoVerdict
    /\ IdleRequest
    /\ IdleValidate
    /\ IdleServices
    /\ IdleExtras

CallCheckDumpRequest ==
    /\ iphase = "input"
    /\ dump_result' = check_dump_request(question)
    /\ iphase' = "dump"
    /\ UNCHANGED <<sensitive_result, fvars, vvars, dvars, cvars, xvars>>

CallCheckSensitiveRequest ==
    /\ iphase = "dump"
    /\ sensitive_result' = check_sensitive_request(question)
    /\ iphase' = "sensitive"
    /\ UNCHANGED <<dump_result, fvars, vvars, dvars, cvars, xvars>>

NextIntent == CallCheckDumpRequest \/ CallCheckSensitiveRequest

SpecIntent == InitIntent /\ [][NextIntent]_vars

(***************************************************************************)
(* The service layer on a database session: execute_query (sql_exec.py),   *)
(* the execution block of chat() (chat.py) and insert_audit_log (repo.py). *)
(***************************************************************************)
\* where the environment fails a service call: creating the engine, connecting, the
\* SET, the statement itself (by kind of database error, or a non-database
\* exception), the commit
Faults ==
    {"none", "engine", "connect", "set", "timeout", "permission", "missing", "other",
     "crash", "commit"}
ServiceCalls ==
    {[fn |-> f, row_cap |-> c, timeout_seconds |-> 30, db_rows |-> n, fault |-> x] :
        f \in {"execute_query", "chat", "insert_audit_log"},
        c \in {50, 200}, n \in {0, 2, 150, 500}, x \in Faults}

\* what the function's own handler makes of an exception
Caught(c) ==
    LET said(message, internal) ==
            [status |-> "raised", rows |-> 0, row_count |-> 0,
             message |-> message, internal |-> internal]
    IN CASE c.fn = "execute_query" ->
              IF c.fault = "timeout" THEN said("Query execution timed out", FALSE)
              ELSE IF c.fault = "permission" THEN said("Access denied for this query", FALSE)
              ELSE IF c.fault = "missing" THEN said("Database error: {error_msg}", TRUE)
              ELSE IF c.fault = "crash"
              THEN said("Unexpected error during query execution: {str(e)}", TRUE)
              ELSE said("Query execution failed: {error_msg}", TRUE)
         [] c.fn = "chat" ->
              [status |-> "returned", rows |-> 0, row_count |-> 0,
               message |-> "An error occurred while executing the query: {str(e)}",
               internal |-> TRUE]
         [] c.fn = "insert_audit_log" ->
              [status |-> "returned", rows |-> 0, row_count |-> 0,
               message |-> "", internal |-> FALSE]
\* an exception no handler of the function catches
Propagated ==
    [status |-> "raised", rows |-> 0, row_count |-> 0, message |-> "{str(e)}", internal |-> TRUE]

InitServices ==
    /\ svc \in ServiceCalls
    /\ epc = "get_engine"
    /\ session = PooledSession
    /\ db_log = <<>>
    /\ ret = NotEnded
    /\ settings \in Configs
    /\ sql_in = <<>> /\ vphase = "idle"
    /\ vs = Pending /\ vc = NotRun /\ sq = NotAsked /\ vs2 = Pending
    /\ IdleFlow
    /\ IdleIntent
    /\ IdleCalls
    /\ IdleExtras

\* engine = get_engine(): inside the try block in chat() only
GetEngine ==
    /\ epc = "get_engine"
    /\ IF svc.fault = "engine"
       THEN /\ ret' = IF svc.fn = "chat" THEN Caught(svc) ELSE Propagated
            /\ epc' = "done"
       ELSE /\ epc' = "connect"
            /\ UNCHANGED ret
    /\ UNCHANGED <<svc, session, db_log, fvars, vvars, ivars, cvars, xvars>>

\* with engine.connect() as conn
Connect ==
    /\ epc = "connect"
    /\ IF svc.fault = "connect"
       THEN /\ ret' = Caught(svc)
            /\ epc' = "done"
            /\ UNCHANGED session
       ELSE /\ session' = [session EXCEPT !.pooled = FALSE]
            /\ epc' = IF svc.fn = "execute_query" THEN "set_timeout" ELSE "execute"
            /\ UNCHANGED ret
    /\ UNCHANGED <<svc, db_log, fvars, vvars, ivars, cvars, xvars>>

\* execute_query: SET statement_timeout = int(timeout_seconds * 1000)
SetTimeout ==
    /\ epc = "set_timeout"
    /\ IF svc.fault = "set"
       THEN /\ ret' = Caught(svc)
            /\ epc' = "release"
            /\ UNCHANGED <<session, db_log>>
       ELSE /\ session' = [session EXCEPT !.statement_timeout = svc.timeout_seconds * 1000]
            /\ db_log' = Append(db_log, "SET statement_timeout")
            /\ epc' = "execute"
            /\ UNCHANGED ret
    /\ UNCHANGED <<svc, fvars, vvars, ivars, cvars, xvars>>

\* conn.execute(...) of the generated statement, or of the audit INSERT
Execute ==
    /\ epc = "execute"
    /\ db_log' = Append(db_log, IF svc.fn = "insert_audit_log" THEN "INSERT" ELSE "generated SQL")
    /\ IF svc.fault \in {"timeout", "permission", "missing", "other", "crash"}
       THEN /\ ret' = Caught(svc)
            /\ epc' = "release"
       ELSE /\ epc' = "executed"
            /\ UNCHANGED ret
    /\ UNCHANGED <<svc, session, fvars, vvars, ivars, cvars, xvars>>

\* the rest of the with block: fetch, cap and reset (execute_query), fetch
\* (chat), commit (insert_audit_log)
AfterExecute ==
    /\ epc = "executed"
    /\ epc' = "release"
    /\ LET effective_row_cap ==
               IF svc.row_cap <= settings.max_limit THEN svc.row_cap ELSE settings.max_limit
           total_count == svc.db_rows
       IN CASE svc.fn = "execute_query" ->
                 /\ session' = [session EXCEPT !.statement_timeout = 0]
                 /\ db_log' = Append(db_log, "SET statement_timeout = 0")
                 /\ ret' = [status |-> "returned", row_count |-> total_count,
                            rows |-> IF total_count > effective_row_cap
                                     THEN effective_row_cap ELSE total_count,
                            message |-> "", internal |-> FALSE]
            [] svc.fn = "chat" ->
                 /\ ret' = [status |-> "returned", row_count |-> total_count,
                            rows |-> total_count, message |-> "Found {row_count} results",
                            internal |-> FALSE]
                 /\ UNCHANGED <<session, db_log>>
            [] svc.fn = "insert_audit_log" ->
                 /\ IF svc.fault = "commit"
                    THEN ret' = Caught(svc) /\ UNCHANGED db_log
                    ELSE /\ ret' = [status |-> "returned", rows |-> 0, row_count |-> 0,
                                    message |-> "", internal |-> FALSE]
                         /\ db_log' = Append(db_log, "COMMIT")
                 /\ UNCHANGED session
    /\ UNCHANGED <<svc, fvars, vvars, ivars, cvars, xvars>>

\* leaving the with block hands the connection back to the pool; whether that
\* undoes a SET of the session is the pool's and the server's affair
Release ==
    /\ epc = "release"
    /\ \E reverts \in BOOLEAN :
         session' = [pooled |-> TRUE,
                     statement_timeout |-> IF reverts THEN 0 ELSE session.statement_timeout]
    /\ epc' = "done"
    /\ UNCHANGED <<svc, db_log, ret, fvars, vvars, ivars, cvars, xvars>>

NextServices ==
    GetEngine \/ Connect \/ SetTimeout \/ Execute \/ AfterExecute \/ Release

SpecServices == InitServices /\ [][NextServices]_vars

(***************************************************************************)
(* agent/schema.py: validate_schema_references.                            *)
(***************************************************************************)
\* table.column, and table.*
QCol(q, c) == N("Column", c, 0, <<A("table", N("Identifier", q, 0, <<>>))>>)
QualifiedStar(q) ==
    N("Column", "*", 0, <<A("this", StarN), A("table", N("Identifier", q, 0, <<>>))>>)
\* FROM table AS alias
TblAs(n, a) == N("Table", n, 0, <<A("alias", N("TableAlias", a, 0, <<>>))>>)

\* ALLOWED_SCHEMA[table]
AllowedColumns(table) ==
    CASE table = "product" -> {"id", "name", "category", "unit_price", "created_at"}
      [] table = "territory" -> {"id", "name", "region", "country", "created_at"}
      [] table = "hcp" -> {"id", "first_name", "last_name", "specialty", "territory_id",
                           "email", "created_at"}
      [] table = "sales" -> {"id", "product_id", "territory_id", "hcp_id", "quantity",
                             "revenue", "sale_date", "created_at"}
      [] OTHER -> {}

\* a variant that looks up no qualified column
ColumnError_Lenient(column) == <<>>

\* the violation of one column reference, if any
ColumnError(column) ==
    LET col_name == Lower(column.name)
        table_ref == Lower(Arg(column, "table").name)
    IN IF table_ref # "" /\ table_ref \in ALLOWED_SCHEMA
          /\ col_name \notin {Lower(c) : c \in AllowedColumns(table_ref)}
       THEN <<[kind |-> "unknown-column", arg |-> col_name, why |-> table_ref]>>
       ELSE <<>>

RECURSIVE ColumnErrors(_)
ColumnErrors(columns) ==
    IF columns = <<>> THEN <<>>
    ELSE ColumnError(Head(columns).node) \o ColumnErrors(Tail(columns))

\* table violations are those of validate_allowlist: blocklist, then allowlist
validate_schema_references(sql) ==
    LET parsed == ParseOne(sql)
        violations == TableErrors(FindAll(parsed, {"Table"}))
                      \o ColumnErrors(FindAll(parsed, {"Column"}))
    IN IF parsed.t = "ParseError"
       THEN [is_valid |-> FALSE,
             violations |-> <<[kind |-> "syntax-error", arg |-> "", why |-> "parse"]>>]
       ELSE [is_valid |-> Len(violations) = 0, violations |-> violations]

SchemaColumns ==
    {Col("name"), Col("ssn"), Col("count"),
     QCol("product", "name"), QCol("product", "ssn"), QCol("Product", "Name"),
     QCol("p", "name"), QCol("p", "ssn"),
     QCol("audit_log", "id"), QCol("sales", "name"), QualifiedStar("product")}
SchemaSources ==
    {<<Tbl("product")>>, <<TblAs("product", "p")>>, <<Tbl("sales")>>, <<Tbl("Audit_Log")>>,
     <<Tbl("secret_table")>>, <<TblAs("product", "p"), Tbl("sales")>>}
SchemaInputs ==
    {<<Frag(SelectN(items, sources, NoLimit, NoneNode))>> :
        <<items, sources>> \in
            {x \in SeqsUpTo(SchemaColumns, MaxItems - 1) \X SchemaSources :
                Len(x[1]) + Len(x[2]) <= MaxItems}}
    \cup {<<Frag(N("Unparsable", "", 0, <<>>))>>, <<>>}

InitSchema ==
    /\ sql_in \in SchemaInputs
    /\ settings = ReferenceSettings
    /\ vphase = "idle"
    /\ vs = Pending /\ vc = NotRun /\ sq = NotAsked /\ vs2 = Pending
    /\ IdleFlow
    /\ IdleIntent
    /\ IdleServices
    /\ IdleSchema
    /\ IdleStream
    /\ IdleHistory
    /\ IdleAudit
    /\ IdleLogin

CallValidateSchemaReferences ==
    /\ schema_result = NotValidated
    /\ sql_in \in SchemaInputs
    /\ schema_result' = validate_schema_references(sql_in)
    /\ UNCHANGED <<svars, hvars, audit_log, lvars>>
    /\ UNCHANGED <<fvars, vvars, ivars, dvars, cvars>>

NextSchema == CallValidateSchemaReferences

SpecSchema == InitSchema /\ [][NextSchema]_vars

(***************************************************************************)
(* Validation calls running at the same time (sql_policy.py,               *)
(* validators.py): each call advances line by line on its own locals.      *)
(***************************************************************************)
ConcurrentTexts ==
    GenTexts \cup {<<Frag(Plain), Semi, Frag(Dml("Drop", "product"))>>}

\* a variant that keeps the locals of every call in one module-level place
Frame_Shared(i) == 1

\* the locals of call i: a frame of its own
Frame(i) == i

NoFrame == [default_limit |-> 0, max_limit |-> 0, sql |-> <<>>, parsed |-> NoneNode,
            errors |-> <<>>]
NewCall(fn, sql) == [fn |-> fn, sql |-> sql, pc |-> "start", out |-> Pending]

InitConcurrent ==
    /\ calls \in [1..MaxCalls -> {NewCall(fn, sql) :
                     fn \in {"validate_sql", "validate_sql_complete"},
                     sql \in ConcurrentTexts}]
    /\ frames = [i \in 1..MaxCalls |-> NoFrame]
    /\ schema = ModuleSchema
    /\ settings \in {ReferenceSettings, [default_limit |-> 50, max_limit |-> 100]}
    /\ sql_in = <<>> /\ vphase = "idle"
    /\ vs = Pending /\ vc = NotRun /\ sq = NotAsked /\ vs2 = Pending
    /\ IdleFlow
    /\ IdleIntent
    /\ svc = NoCall /\ epc = "idle" /\ session = PooledSession
    /\ db_log = <<>> /\ ret = NotEnded
    /\ IdleExtras

\* call i moves to `pc', its frame becoming `frame'
Advance(i, pc_, frame) ==
    /\ calls' = [calls EXCEPT ![i].pc = pc_]
    /\ frames' = [frames EXCEPT ![Frame(i)] = frame]
\* call i ends with `out'
EndCall(i, out) ==
    /\ calls' = [calls EXCEPT ![i].pc = "done", ![i].out = out]
    /\ UNCHANGED frames

\* one line of validate_sql in call i
PolicyStep(i) ==
    /\ calls[i].fn = "validate_sql" /\ calls[i].pc # "done"
    /\ LET c == calls[i]
           f == frames[Frame(i)]
       IN CASE c.pc = "start" ->
                 Advance(i, "strip", [f EXCEPT !.default_limit = settings.default_limit,
                                               !.max_limit = settings.max_limit])
            [] c.pc = "strip" ->
                 Advance(i, "split", [f EXCEPT !.sql = RStripSemi(Strip(c.sql))])
            [] c.pc = "split" ->
                 IF HasSemi(f.sql) THEN EndCall(i, Raised(Err("multi-statement", "")))
                 ELSE Advance(i, "check_type", [f EXCEPT !.parsed = ParseOne(f.sql)])
            [] c.pc = "check_type" ->
                 IF f.parsed.t = "ParseError" THEN EndCall(i, Raised(Err("syntax-error", "")))
                 ELSE IF ~TopLevelAllowed(f.parsed)
                 THEN EndCall(i, Raised(Err("forbidden-statement-type", "top-level")))
                 ELSE Advance(i, "check_danger", f)
            [] c.pc = "check_danger" ->
                 LET d == check_for_dangerous_operations(f.parsed)
                 IN IF d.kind # "ok" THEN EndCall(i, Raised(d))
                    ELSE Advance(i, "enforce_limit", f)
            [] c.pc = "enforce_limit" ->
                 LET l == enforce_limit(f.parsed, f.default_limit, f.max_limit)
                 IN IF l.err.kind # "ok" THEN EndCall(i, Raised(l.err))
                    ELSE EndCall(i, Returned(Sql(l.parsed)))
    /\ UNCHANGED <<schema, fvars, vvars, ivars, dvars, xvars>>

\* one validator of validate_sql_complete in call i
CompleteStep(i) ==
    /\ calls[i].fn = "validate_sql_complete" /\ calls[i].pc # "done"
    /\ LET c == calls[i]
           f == frames[Frame(i)]
           with(more) == [f EXCEPT !.errors = f.errors \o more]
       IN CASE c.pc = "start" ->
                 Advance(i, "select_only", [f EXCEPT !.errors = <<>>])
            [] c.pc = "select_only" ->
                 Advance(i, "no_select_star", with(AsList(validate_select_only(c.sql))))
            [] c.pc = "no_select_star" ->
                 Advance(i, "dangerous_patterns", with(AsList(validate_no_select_star(c.sql))))
            [] c.pc = "dangerous_patterns" ->
                 Advance(i, "allowlist", with(AsList(validate_no_dangerous_patterns(c.sql))))
            [] c.pc = "allowlist" ->
                 Advance(i, "return", with(validate_allowlist(c.sql)))
            [] c.pc = "return" ->
                 EndCall(i, [is_valid |-> Len(f.errors) = 0, errors |-> f.errors])
    /\ UNCHANGED <<schema, fvars, vvars, ivars, dvars, xvars>>

NextConcurrent == \E i \in 1..MaxCalls : PolicyStep(i) \/ CompleteStep(i)

SpecConcurrent == InitConcurrent /\ [][NextConcurrent]_vars

(***************************************************************************)
(* The collaborators' outcomes, as the flows see them.                     *)
(***************************************************************************)
\* generate_sql / fix_sql: a text, or an exception
GenOutcomes == {[raised |-> FALSE, text |-> t] : t \in GenTexts} \cup {[raised |-> TRUE, text |-> <<>>]}

GenCall(op, sql, errors) == [op |-> op, sql |-> sql, errors |-> errors]
Handed(sql, validated) == [sql |-> sql, validated |-> validated]
ValCall(validator, sql) == [validator |-> validator, sql |-> sql]

\* execute_query: rows[:effective_row_cap], and the uncapped count
execute_query(out) ==
    LET effective_row_cap == IF 200 <= max_limit THEN 200 ELSE max_limit
    IN IF out.ok
       THEN [ok |-> TRUE, error |-> NoErr, row_count |-> out.rows,
             rows |-> IF out.rows > effective_row_cap THEN effective_row_cap ELSE out.rows]
       ELSE [ok |-> FALSE, error |-> out.error, row_count |-> 0, rows |-> 0]

Finish(answer, sql, rows, row_count) ==
    [done |-> TRUE, answer |-> answer, sql |-> sql, rows |-> rows, row_count |-> row_count]

(***************************************************************************)
(* run_agent: the compiled graph of workflow.py.                           *)
(***************************************************************************)
\* a variant that sends a refused request on to generation
should_ask_clarification_IgnoresRefusal(state) ==
    IF state.ambiguity_flag THEN "clarify"
    ELSE "schema_ground"

\* a variant that sends an ambiguous request on to generation
should_ask_clarification_IgnoresAmbiguity(state) ==
    IF state.refusal_flag THEN "finalize"
    ELSE "schema_ground"

should_ask_clarification(state) ==
    IF state.ambiguity_flag THEN "clarify"
    ELSE IF state.refusal_flag THEN "finalize"
    ELSE "schema_ground"

\* a variant that retries on every error, whatever is left of the budget
should_retry_IgnoresBudget(state) ==
    LET has_errors == state.validation_errors # <<>> \/ state.execution_error # NoErr
    IN IF has_errors THEN "retry" ELSE "finalize"

should_retry(state) ==
    LET has_errors == state.validation_errors # <<>> \/ state.execution_error # NoErr
        attempts_left == state.attempts_remaining > 0
    IN IF has_errors /\ attempts_left THEN "retry" ELSE "finalize"

preprocess_node ==
    /\ flow = "workflow" /\ pc = "preprocess"
    /\ st' = [st EXCEPT !.normalized_question = Normalize(question)]
    /\ pc' = "scope_policy"
    /\ UNCHANGED <<flow, question, llm_available, result, exec_log, gen_log, val_log>>
    /\ UNCHANGED <<vvars, ivars, dvars, cvars, xvars>>

scope_policy_node ==
    /\ flow = "workflow" /\ pc = "scope_policy"
    /\ LET q == st.normalized_question
           dump == check_dump_request(q)
           sensitive == check_sensitive_request(q)
           new == IF dump.hit
                  THEN [st EXCEPT !.refusal_flag = TRUE, !.refusal_reason = dump.reason]
                  ELSE IF sensitive.hit
                  THEN [st EXCEPT !.refusal_flag = TRUE, !.refusal_reason = sensitive.reason]
                  ELSE IF WordCount(q) < 3
                  THEN [st EXCEPT !.ambiguity_flag = TRUE, !.follow_up_questions = TRUE]
                  ELSE IF IsVague(q) /\ WordCount(q) < 6
                  THEN [st EXCEPT !.ambiguity_flag = TRUE, !.follow_up_questions = TRUE]
                  ELSE st
       IN /\ st' = new
          /\ pc' = should_ask_clarification(new)
    /\ UNCHANGED <<flow, question, llm_available, result, exec_log, gen_log, val_log>>
    /\ UNCHANGED <<vvars, ivars, dvars, cvars, xvars>>

clarifying_questions_node ==
    /\ flow = "workflow" /\ pc = "clarify"
    /\ st' = [st EXCEPT !.answer = Answer("clarification", NoReason, <<>>),
                        !.follow_up_questions = TRUE]
    /\ pc' = "finalize"
    /\ UNCHANGED <<flow, question, llm_available, result, exec_log, gen_log, val_log>>
    /\ UNCHANGED <<vvars, ivars, dvars, cvars, xvars>>

schema_grounding_node ==
    /\ flow = "workflow" /\ pc = "schema_ground"
    /\ pc' = "generate_sql"
    /\ UNCHANGED <<flow, question, llm_available, st, result, exec_log, gen_log, val_log>>
    /\ UNCHANGED <<vvars, ivars, dvars, cvars, xvars>>

generate_sql_node ==
    /\ flow = "workflow" /\ pc = "generate_sql"
    /\ IF ~llm_available
       THEN /\ st' = [st EXCEPT !.sql_candidate = NoneText,
                                !.validation_errors = <<Err("llm-unavailable", "")>>,
                                !.validated = NoneText]
            /\ UNCHANGED gen_log
       ELSE \E out \in GenOutcomes :
              LET fixing == st.validation_errors # <<>> /\ Truthy(st.sql_candidate)
                  call == IF fixing
                          THEN GenCall("fix_sql", st.sql_candidate.text, st.validation_errors)
                          ELSE GenCall("generate_sql", <<>>, <<>>)
              IN /\ gen_log' = Append(gen_log, call)
                 /\ st' = IF out.raised
                          THEN [st EXCEPT !.sql_candidate = NoneText,
                                          !.validation_errors = <<Err("llm-error", "")>>,
                                          !.validated = NoneText]
                          ELSE [st EXCEPT !.sql_candidate = Some(out.text),
                                          !.validation_errors = <<>>,
                                          !.validated = NoneText]
    /\ pc' = "validate_sql"
    /\ UNCHANGED <<flow, question, llm_available, result, exec_log, val_log>>
    /\ UNCHANGED <<vvars, ivars, dvars, cvars, xvars>>

validate_sql_node ==
    /\ flow = "workflow" /\ pc = "validate_sql"
    /\ LET sql == st.sql_candidate
           complete == validate_sql_complete(sql.text)
           policy == validate_sql(sql.text, ReferenceSettings)
           new == IF ~Truthy(sql)
                  THEN [st EXCEPT !.validation_errors =
                            IF st.validation_errors # <<>> THEN st.validation_errors
                            ELSE <<Err("no-sql", "")>>]
                  ELSE IF ~complete.is_valid
                  THEN [st EXCEPT !.validation_errors = complete.errors]
                  ELSE IF policy.ok
                  THEN [st EXCEPT !.sql_candidate = Some(policy.sql),
                                  !.validation_errors = <<>>,
                                  !.validated = Some(policy.sql)]
                  ELSE [st EXCEPT !.validation_errors = <<policy.err>>]
       IN /\ st' = new
          /\ pc' = IF should_retry(new) = "retry" THEN "fix_retry" ELSE "execute"
          /\ val_log' = val_log
                \o (IF Truthy(sql) THEN <<ValCall("validate_sql_complete", sql.text)>> ELSE <<>>)
                \o (IF Truthy(sql) /\ complete.is_valid
                    THEN <<ValCall("validate_sql", sql.text)>> ELSE <<>>)
    /\ UNCHANGED <<flow, question, llm_available, result, exec_log, gen_log>>
    /\ UNCHANGED <<vvars, ivars, dvars, cvars, xvars>>

fix_retry_node ==
    /\ flow = "workflow" /\ pc = "fix_retry"
    /\ st' = [st EXCEPT !.attempts_remaining = st.attempts_remaining - 1]
    /\ pc' = "generate_sql"
    /\ UNCHANGED <<flow, question, llm_available, result, exec_log, gen_log, val_log>>
    /\ UNCHANGED <<vvars, ivars, dvars, cvars, xvars>>

execute_query_node ==
    /\ flow = "workflow" /\ pc = "execute"
    /\ IF ~Truthy(st.sql_candidate)
       THEN LET new == [st EXCEPT !.execution_error = Err("execution", "no-sql"),
                                  !.rows = 0, !.row_count = 0]
            IN /\ st' = new
               /\ pc' = IF should_retry(new) = "retry" THEN "fix_retry" ELSE "finalize"
               /\ UNCHANGED exec_log
       ELSE \E out \in ExecOutcomes :
              LET r == execute_query(out)
                  new == IF r.ok
                         THEN [st EXCEPT !.rows = r.rows, !.row_count = r.row_count,
                                         !.execution_error = NoErr]
                         ELSE [st EXCEPT !.execution_error = r.error,
                                         !.validation_errors = Append(st.validation_errors, r.error),
                                         !.rows = 0, !.row_count = 0]
              IN /\ exec_log' = Append(exec_log, Handed(st.sql_candidate.text, st.validated))
                 /\ st' = new
                 /\ pc' = IF should_retry(new) = "retry" THEN "fix_retry" ELSE "finalize"
    /\ UNCHANGED <<flow, question, llm_available, result, gen_log, val_log>>
    /\ UNCHANGED <<vvars, ivars, dvars, cvars, xvars>>

\* the state finalize_response_node returns, given whether generate_answer raised
finalize_response(state, llm_ok, summary_raised) ==
    LET llm_required == Answer("llm-required", NoReason, <<>>)
    IN IF state.refusal_flag
       THEN [state EXCEPT !.answer = Answer("refusal", state.refusal_reason, <<>>),
                          !.sql_candidate = NoneText]
       ELSE IF state.ambiguity_flag
       THEN [state EXCEPT !.sql_candidate = NoneText]
       ELSE IF ~llm_ok
       THEN [state EXCEPT !.answer = llm_required, !.sql_candidate = NoneText, !.row_count = 0]
       ELSE IF state.execution_error # NoErr
       THEN [state EXCEPT !.answer = Answer("execution-error", NoReason, <<state.execution_error>>),
                          !.follow_up_questions = TRUE]
       ELSE IF state.validation_errors # <<>>
       THEN [state EXCEPT !.answer = Answer("invalid-query", NoReason, state.validation_errors),
                          !.sql_candidate = NoneText,
                          !.follow_up_questions = TRUE]
       ELSE IF summary_raised
       THEN [state EXCEPT !.answer = llm_required, !.sql_candidate = NoneText, !.row_count = 0]
       ELSE [state EXCEPT !.answer = Answer("summary", NoReason, <<>>),
                          !.follow_up_questions = TRUE]

finalize_response_node ==
    /\ flow = "workflow" /\ pc = "finalize"
    /\ \E summary_raised \in BOOLEAN :
         LET new == finalize_response(st, llm_available, summary_raised)
         IN /\ st' = new
            /\ result' = Finish(new.answer, new.sql_candidate, new.rows, new.row_count)
    /\ pc' = "done"
    /\ UNCHANGED <<flow, question, llm_available, exec_log, gen_log, val_log>>
    /\ UNCHANGED <<vvars, ivars, dvars, cvars, xvars>>

(***************************************************************************)
(* StreamingWorkflowRunner.run_workflow_streaming (streaming.py).          *)
(***************************************************************************)
max_attempts == 3

\* analysing the question: LLM availability, normalisation, the refusals
StreamAnalyze ==
    /\ flow = "streaming" /\ pc = "analyzing_question"
    /\ LET normalized == Normalize(question)
           dump == check_dump_request(normalized)
           sensitive == check_sensitive_request(normalized)
       IN IF ~llm_available
          THEN /\ result' = Finish(Answer("llm-required", NoReason, <<>>), NoneText, 0, 0)
               /\ pc' = "done"
               /\ UNCHANGED st
          ELSE IF dump.hit
          THEN /\ result' = Finish(Answer("refusal", dump.reason, <<>>), NoneText, 0, 0)
               /\ pc' = "done"
               /\ st' = [st EXCEPT !.normalized_question = normalized, !.refusal_flag = TRUE]
          ELSE IF sensitive.hit
          THEN /\ result' = Finish(Answer("refusal", sensitive.reason, <<>>), NoneText, 0, 0)
               /\ pc' = "done"
               /\ st' = [st EXCEPT !.normalized_question = normalized, !.refusal_flag = TRUE]
          ELSE /\ pc' = "generating_sql"
               /\ st' = [st EXCEPT !.normalized_question = normalized]
               /\ UNCHANGED result
    /\ UNCHANGED <<flow, question, llm_available, exec_log, gen_log, val_log>>
    /\ UNCHANGED <<vvars, ivars, dvars, cvars, xvars>>

\* one pass of `for attempt in range(max_attempts)'
StreamAttempt ==
    /\ flow = "streaming" /\ pc = "generating_sql"
    /\ st.attempt < max_attempts
    /\ \E out \in GenOutcomes :
         LET call == IF st.attempt = 0
                     THEN GenCall("generate_sql", <<>>, <<>>)
                     ELSE GenCall("fix_sql", st.sql_candidate.text, st.validation_errors)
             policy == validate_sql(out.text, ReferenceSettings)
             complete == validate_sql_complete(policy.sql)
             new == IF out.raised
                    THEN [st EXCEPT !.validation_errors = <<Err("generation-failed", "")>>]
                    ELSE IF out.text = <<>>
                    THEN [st EXCEPT !.sql_candidate = Some(out.text),
                                    !.validation_errors = <<Err("no-sql", "")>>,
                                    !.validated = NoneText]
                    ELSE IF ~policy.ok
                    THEN [st EXCEPT !.sql_candidate = Some(out.text),
                                    !.validation_errors = <<policy.err>>,
                                    !.validated = NoneText]
                    ELSE IF complete.is_valid
                    THEN [st EXCEPT !.sql_candidate = Some(policy.sql),
                                    !.validation_errors = <<>>,
                                    !.validated = Some(policy.sql)]
                    ELSE [st EXCEPT !.sql_candidate = Some(policy.sql),
                                    !.validation_errors = complete.errors,
                                    !.validated = NoneText]
             broke == ~out.raised /\ out.text # <<>> /\ policy.ok /\ complete.is_valid
             validating == ~out.raised /\ out.text # <<>>
         IN /\ gen_log' = Append(gen_log, call)
            /\ val_log' = val_log
                  \o (IF validating THEN <<ValCall("validate_sql", out.text)>> ELSE <<>>)
                  \o (IF validating /\ policy.ok
                      THEN <<ValCall("validate_sql_complete", policy.sql)>> ELSE <<>>)
            /\ st' = [new EXCEPT !.attempt = st.attempt + 1]
            /\ pc' = IF broke \/ st.attempt + 1 = max_attempts THEN "after_loop" ELSE pc
    /\ UNCHANGED <<flow, question, llm_available, result, exec_log>>
    /\ UNCHANGED <<vvars, ivars, dvars, cvars, xvars>>

\* `if validation_errors: return ...', else on to execution
StreamAfterLoop ==
    /\ flow = "streaming" /\ pc = "after_loop"
    /\ IF st.validation_errors # <<>>
       THEN /\ result' = Finish(Answer("invalid-query", NoReason, st.validation_errors),
                                st.sql_candidate, 0, 0)
            /\ pc' = "done"
       ELSE /\ pc' = "executing_sql"
            /\ UNCHANGED result
    /\ UNCHANGED <<flow, question, llm_available, st, exec_log, gen_log, val_log>>
    /\ UNCHANGED <<vvars, ivars, dvars, cvars, xvars>>

StreamExecute ==
    /\ flow = "streaming" /\ pc = "executing_sql"
    /\ \E out \in ExecOutcomes :
         LET r == execute_query(out)
         IN /\ exec_log' = Append(exec_log, Handed(st.sql_candidate.text, st.validated))
            /\ IF r.ok
               THEN /\ st' = [st EXCEPT !.rows = r.rows, !.row_count = r.row_count]
                    /\ pc' = "summarizing_answer"
                    /\ UNCHANGED result
               ELSE /\ result' = Finish(Answer("execution-error", NoReason, <<r.error>>),
                                        st.sql_candidate, 0, 0)
                    /\ pc' = "done"
                    /\ UNCHANGED st
    /\ UNCHANGED <<flow, question, llm_available, gen_log, val_log>>
    /\ UNCHANGED <<vvars, ivars, dvars, cvars, xvars>>

StreamSummarize ==
    /\ flow = "streaming" /\ pc = "summarizing_answer"
    /\ result' = Finish(Answer("summary", NoReason, <<>>), st.sql_candidate, st.rows, st.row_count)
    /\ pc' = "done"
    /\ UNCHANGED <<flow, question, llm_available, st, exec_log, gen_log, val_log>>
    /\ UNCHANGED <<vvars, ivars, dvars, cvars, xvars>>

(***************************************************************************)
(* Two requests at the same time: run_agent builds its initial_state, and  *)
(* stream_chat_response its StreamingWorkflowRunner, once per request.     *)
(* The questions are clear and in scope, the LLM is configured.            *)
(***************************************************************************)
Requests == {1, 2}
RequestGenOutcomes ==
    {o \in GenOutcomes : o.raised \/ o.text \in {<<Frag(Plain)>>, <<Frag(Dml("Drop", "product"))>>}}
RequestExecOutcomes ==
    {o \in ExecOutcomes : o.rows = 2 \/ o.error = Err("execution", "generic")}

\* `spent' counts the retried cycles (run_agent) or loop passes (runner) of the request
NewRequest(fn) == [fn |-> fn, pc |-> "start", spent |-> 0, out |-> NoResult]

InitRequests ==
    /\ calls \in [Requests -> {NewRequest(fn) : fn \in {"run_agent", "run_workflow_streaming"}}]
    /\ frames = [i \in Requests |-> NoFrame]
    /\ schema = ModuleSchema
    /\ settings = ReferenceSettings
    /\ sql_in = <<>> /\ vphase = "idle"
    /\ vs = Pending /\ vc = NotRun /\ sq = NotAsked /\ vs2 = Pending
    /\ IdleFlow
    /\ IdleIntent
    /\ svc = NoCall /\ epc = "idle" /\ session = PooledSession
    /\ db_log = <<>> /\ ret = NotEnded
    /\ IdleExtras

\* request i moves to `pc_' with its state `frame', having spent `n' more of its budget
Move(i, pc_, frame, n) ==
    /\ calls' = [calls EXCEPT ![i].pc = pc_, ![i].spent = calls[i].spent + n]
    /\ frames' = [frames EXCEPT ![Frame(i)] = frame]
\* request i responds
Respond(i, response) ==
    /\ calls' = [calls EXCEPT ![i].pc = "done", ![i].out = response]
    /\ UNCHANGED frames

\* the state generate_sql_node returns
Generated(state, out) ==
    IF out.raised
    THEN [state EXCEPT !.sql_candidate = NoneText,
                       !.validation_errors = <<Err("llm-error", "")>>,
                       !.validated = NoneText]
    ELSE [state EXCEPT !.sql_candidate = Some(out.text),
                       !.validation_errors = <<>>,
                       !.validated = NoneText]

\* the state validate_sql_node returns
Validated(state) ==
    LET sql == state.sql_candidate
        complete == validate_sql_complete(sql.text)
        policy == validate_sql(sql.text, ReferenceSettings)
    IN IF ~Truthy(sql)
       THEN [state EXCEPT !.validation_errors =
                 IF state.validation_errors # <<>> THEN state.validation_errors
                 ELSE <<Err("no-sql", "")>>]
       ELSE IF ~complete.is_valid
       THEN [state EXCEPT !.validation_errors = complete.errors]
       ELSE IF policy.ok
       THEN [state EXCEPT !.sql_candidate = Some(policy.sql),
                          !.validation_errors = <<>>,
                          !.validated = Some(policy.sql)]
       ELSE [state EXCEPT !.validation_errors = <<policy.err>>]

\* the state execute_query_node returns
Executed(state, out) ==
    LET r == execute_query(out)
    IN IF ~Truthy(state.sql_candidate)
       THEN [state EXCEPT !.execution_error = Err("execution", "no-sql"),
                          !.rows = 0, !.row_count = 0]
       ELSE IF r.ok
       THEN [state EXCEPT !.rows = r.rows, !.row_count = r.row_count,
                          !.execution_error = NoErr]
       ELSE [state EXCEPT !.execution_error = r.error,
                          !.validation_errors = Append(state.validation_errors, r.error),
                          !.rows = 0, !.row_count = 0]

\* the runner's locals after one pass of `for attempt in range(max_attempts)'
Attempted(state, out) ==
    LET policy == validate_sql(out.text, ReferenceSettings)
        complete == validate_sql_complete(policy.sql)
        new == IF out.raised
               THEN [state EXCEPT !.validation_errors = <<Err("generation-failed", "")>>]
               ELSE IF out.text = <<>>
               THEN [state EXCEPT !.sql_candidate = Some(out.text),
                                  !.validation_errors = <<Err("no-sql", "")>>,
                                  !.validated = NoneText]
               ELSE IF ~policy.ok
               THEN [state EXCEPT !.sql_candidate = Some(out.text),
                                  !.validation_errors = <<policy.err>>,
                                  !.validated = NoneText]
               ELSE IF complete.is_valid
               THEN [state EXCEPT !.sql_candidate = Some(policy.sql),
                                  !.validation_errors = <<>>,
                                  !.validated = Some(policy.sql)]
               ELSE [state EXCEPT !.sql_candidate = Some(policy.sql),
                                  !.validation_errors = complete.errors,
                                  !.validated = NoneText]
    IN [new EXCEPT !.attempt = state.attempt + 1]

\* one node of the compiled graph, in request i
AgentStep(i) ==
    /\ calls[i].fn = "run_agent" /\ calls[i].pc # "done"
    /\ \E gen \in RequestGenOutcomes, out \in RequestExecOutcomes, summary_raised \in BOOLEAN :
         LET c == calls[i]
             state == frames[Frame(i)]
             after(new) == IF should_retry(new) = "retry" THEN "fix_retry" ELSE "finalize"
         IN CASE c.pc = "start" -> Move(i, "generate_sql", InitialState, 0)
              [] c.pc = "generate_sql" -> Move(i, "validate_sql", Generated(state, gen), 0)
              [] c.pc = "validate_sql" ->
                   LET new == Validated(state)
                   IN Move(i, IF should_retry(new) = "retry" THEN "fix_retry" ELSE "execute",
                           new, 0)
              [] c.pc = "fix_retry" ->
                   Move(i, "generate_sql",
                        [state EXCEPT !.attempts_remaining = state.attempts_remaining - 1], 1)
              [] c.pc = "execute" ->
                   Move(i, after(Executed(state, out)), Executed(state, out), 0)
              [] c.pc = "finalize" ->
                   LET new == finalize_response(state, TRUE, summary_raised)
                   IN /\ calls' = [calls EXCEPT ![i].pc = "done",
                                     ![i].out = Finish(new.answer, new.sql_candidate,
                                                       new.rows, new.row_count)]
                      /\ frames' = [frames EXCEPT ![Frame(i)] = new]
    /\ UNCHANGED <<schema, fvars, vvars, ivars, dvars, xvars>>

\* one step of run_workflow_streaming, in request i
RunnerStep(i) ==
    /\ calls[i].fn = "run_workflow_streaming" /\ calls[i].pc # "done"
    /\ \E gen \in RequestGenOutcomes, out \in RequestExecOutcomes :
         LET c == calls[i]
             state == frames[Frame(i)]
             r == execute_query(out)
         IN CASE c.pc = "start" -> Move(i, "generating_sql", InitialState, 0)
              [] c.pc = "generating_sql" ->
                   LET new == Attempted(state, gen)
                   IN Move(i, IF new.validation_errors = <<>> \/ new.attempt = max_attempts
                              THEN "after_loop" ELSE "generating_sql", new, 1)
              [] c.pc = "after_loop" ->
                   IF state.validation_errors # <<>>
                   THEN Respond(i, Finish(Answer("invalid-query", NoReason, state.validation_errors),
                                          state.sql_candidate, 0, 0))
                   ELSE Move(i, "executing_sql", state, 0)
              [] c.pc = "executing_sql" ->
                   IF r.ok
                   THEN Move(i, "summarizing_answer",
                             [state EXCEPT !.rows = r.rows, !.row_count = r.row_count], 0)
                   ELSE Respond(i, Finish(Answer("execution-error", NoReason, <<r.error>>),
                                          state.sql_candidate, 0, 0))
              [] c.pc = "summarizing_answer" ->
                   Respond(i, Finish(Answer("summary", NoReason, <<>>), state.sql_candidate,
                                     state.rows, state.row_count))
    /\ UNCHANGED <<schema, fvars, vvars, ivars, dvars, xvars>>

NextRequests == \E i \in Requests : AgentStep(i) \/ RunnerStep(i)

SpecRequests == InitRequests /\ [][NextRequests]_vars

(***************************************************************************)
(* POST /chat/stream: the generator of the response and the workflow task  *)
(* it starts, on one event loop (streaming.py 391-560).                    *)
(***************************************************************************)
\* the k-th event the workflow task emits: status events, then tokens
Emit(k) == [type |-> IF k <= 2 THEN "status" ELSE "token", n |-> k]
SessionEvent == [type |-> "session", n |-> 0]
CompleteEvent == [type |-> "complete", n |-> 0]
ErrorEvent == [type |-> "error", n |-> 0]

Terminal(e) == e.type \in {"complete", "error"}

\* insert_audit_log(session_id, question, sql_text, runtime_ms, row_count, error_text):
\* the statement and the error text of the record; <<>> is error_text = None
AuditRecord(sql_text, error_text) == [sql_text |-> sql_text, error_text |-> error_text]

\* storage calls of the generator that may raise: add_message before the try
\* block, add_message after the workflow, or none
StorageFaults == {"none", "user_message", "assistant_message"}

InitStream ==
    /\ task \in {[emits |-> n, outcome |-> o, status |-> "none", emitted |-> 0] :
                    n \in 1..MaxEmits, o \in {"returns", "raises"}}
    /\ sse \in {[pc |-> "session", fault |-> f] : f \in StorageFaults}
    /\ events = <<>> /\ stream = <<>>
    /\ IdleSchema
    /\ IdleHistory
    /\ IdleAudit
    /\ IdleLogin
    /\ settings = ReferenceSettings
    /\ sql_in = <<>> /\ vphase = "idle"
    /\ vs = Pending /\ vc = NotRun /\ sq = NotAsked /\ vs2 = Pending
    /\ IdleFlow
    /\ IdleIntent
    /\ IdleServices

Goto(pc_) == sse' = [sse EXCEPT !.pc = pc_]
StreamIdle == UNCHANGED <<schema_result, hvars, lvars, fvars, vvars, ivars, dvars, cvars>>
NoAudit == UNCHANGED audit_log

\* stream_with_session_id: the session event, then the inner generator
YieldSession ==
    /\ sse.pc = "session"
    /\ stream' = Append(stream, SessionEvent)
    /\ Goto("store_user")
    /\ UNCHANGED <<events, task>>
    /\ StreamIdle
    /\ NoAudit

\* add_message(session_id, "user", message), titling and context, before `try'
StoreUserMessage ==
    /\ sse.pc = "store_user"
    /\ Goto(IF sse.fault = "user_message" THEN "raised" ELSE "create_task")
    /\ UNCHANGED <<events, stream, task>>
    /\ StreamIdle
    /\ NoAudit

\* asyncio.create_task(runner.run_workflow_streaming(...))
CreateTask ==
    /\ sse.pc = "create_task"
    /\ task' = [task EXCEPT !.status = "running"]
    /\ Goto("loop")
    /\ UNCHANGED <<events, stream>>
    /\ StreamIdle
    /\ NoAudit

\* the task runs to its next await: emit_status / emit_token puts one event
TaskEmit ==
    /\ task.status = "running" /\ task.emitted < task.emits
    /\ events' = Append(events, Emit(task.emitted + 1))
    /\ task' = [task EXCEPT !.emitted = task.emitted + 1]
    /\ UNCHANGED <<stream, sse>>
    /\ StreamIdle
    /\ NoAudit

\* run_workflow_streaming returns its result or raises
TaskEnd ==
    /\ task.status = "running" /\ task.emitted = task.emits
    /\ task' = [task EXCEPT !.status = "done"]
    /\ UNCHANGED <<events, stream, sse>>
    /\ StreamIdle
    /\ NoAudit

\* while not workflow_task.done()
LoopCheck ==
    /\ sse.pc = "loop"
    /\ Goto(IF task.status = "done" THEN "drain" ELSE "get")
    /\ UNCHANGED <<events, stream, task>>
    /\ StreamIdle
    /\ NoAudit

\* await asyncio.wait_for(runner.events.get(), timeout=0.1): the head of the
\* queue is yielded, or the wait times out on an empty queue
GetEvent ==
    /\ sse.pc = "get"
    /\ IF events # <<>>
       THEN /\ stream' = Append(stream, Head(events))
            /\ events' = Tail(events)
       ELSE UNCHANGED <<events, stream>>
    /\ Goto("loop")
    /\ UNCHANGED task
    /\ StreamIdle
    /\ NoAudit

\* while not runner.events.empty(): yield runner.events.get_nowait()
Drain ==
    /\ sse.pc = "drain"
    /\ stream' = stream \o events
    /\ events' = <<>>
    /\ Goto("await_task")
    /\ UNCHANGED task
    /\ StreamIdle
    /\ NoAudit

\* the try block reaches emit_complete when neither the task nor the storage raises
Completing == {<<"returns", "none">>, <<"returns", "user_message">>}

\* result = await workflow_task, then add_message(session_id, "assistant", ...)
AwaitTask ==
    /\ sse.pc = "await_task"
    /\ Goto(IF <<task.outcome, sse.fault>> \in Completing
            THEN "emit_complete" ELSE "except")
    /\ UNCHANGED <<events, stream, task>>
    /\ StreamIdle
    /\ NoAudit

\* runner.emit_complete(result); yield runner.events.get_nowait()
EmitComplete ==
    /\ sse.pc = "emit_complete"
    /\ LET queue == Append(events, CompleteEvent)
       IN /\ stream' = Append(stream, Head(queue))
          /\ events' = Tail(queue)
    /\ Goto("audit")
    /\ UNCHANGED task
    /\ StreamIdle
    /\ NoAudit

\* except Exception: runner.emit_error(str(e)); yield runner.events.get_nowait()
EmitError ==
    /\ sse.pc = "except"
    /\ LET queue == Append(events, ErrorEvent)
       IN /\ stream' = Append(stream, Head(queue))
          /\ events' = Tail(queue)
    /\ Goto("audit")
    /\ UNCHANGED task
    /\ StreamIdle
    /\ NoAudit

\* insert_audit_log(...), the last statement of either branch
AuditStream ==
    /\ sse.pc = "audit"
    /\ Goto("closed")
    /\ audit_log' = Append(audit_log,
            IF Terminal(stream[Len(stream)]) /\ stream[Len(stream)].type = "error"
            THEN AuditRecord(NoneText, <<"error">>)
            ELSE AuditRecord(NoneText, <<>>))
    /\ UNCHANGED <<events, stream, task>>
    /\ StreamIdle

NextStream ==
    \/ YieldSession
    \/ StoreUserMessage
    \/ CreateTask
    \/ TaskEmit
    \/ TaskEnd
    \/ LoopCheck
    \/ GetEvent
    \/ Drain
    \/ AwaitTask
    \/ EmitComplete
    \/ EmitError
    \/ AuditStream

SpecStream == InitStream /\ [][NextStream]_vars

(***************************************************************************)
(* Chat sessions and their messages: POST /sessions, POST /chat/stream and *)
(* GET /sessions/{id}/messages (sessions.py, streaming.py 489-560,         *)
(* chat_history.py).                                                       *)
(***************************************************************************)
\* chat sessions and stored messages the model lets the tables grow to
MaxSessions == 2
MaxMessages == 3

Users == {1, 2}
\* session_id of a request: absent (None) or an integer; serial ids start at 1
NoId == -1
RequestIds == {NoId} \cup (0..(MaxSessions + 1))
NoSession == [id |-> 0, user_id |-> 0]
\* user_id argument left out
AnyUser == 0

\* SELECT ... FROM chat_session WHERE id = :session_id [AND user_id = :user_id]
get_session(session_id, user_id) ==
    IF session_id \in 1..Len(chat_session)
    THEN IF user_id \in {AnyUser, chat_session[session_id]}
         THEN [id |-> session_id, user_id |-> chat_session[session_id]]
         ELSE NoSession
    ELSE NoSession

\* the ownership query, then the messages of the session in order
get_session_messages(session_id, user_id) ==
    IF session_id \in 1..Len(chat_session)
    THEN IF chat_session[session_id] = user_id
         THEN SelectSeq(chat_message, LAMBDA msg : msg.session_id = session_id)
         ELSE <<>>
    ELSE <<>>

\* INSERT INTO chat_message (session_id, role, ...)
add_message(table, session_id, role) ==
    Append(table, [session_id |-> session_id, role |-> role])

\* what the stream of an accepted request stores: the user message, and the
\* assistant message when the workflow returned
StoredBy(session_id, outcome) ==
    IF outcome = "returns"
    THEN add_message(add_message(chat_message, session_id, "user"), session_id, "assistant")
    ELSE add_message(chat_message, session_id, "user")

Reply(op, user_id, session_id, status, ran, messages) ==
    [op |-> op, user_id |-> user_id, session_id |-> session_id, status |-> status,
     ran_workflow |-> ran, messages |-> messages]

InitHistory ==
    /\ IdleHistory
    /\ IdleSchema
    /\ IdleStream
    /\ IdleAudit
    /\ IdleLogin
    /\ settings = ReferenceSettings
    /\ sql_in = <<>> /\ vphase = "idle"
    /\ vs = Pending /\ vc = NotRun /\ sq = NotAsked /\ vs2 = Pending
    /\ IdleFlow
    /\ IdleIntent
    /\ IdleServices

HistoryIdle == UNCHANGED <<schema_result, svars, audit_log, lvars, fvars, vvars, ivars, dvars, cvars>>

\* POST /sessions
create_new_session ==
    /\ Len(chat_session) < MaxSessions
    /\ \E user_id \in Users :
        /\ chat_session' = Append(chat_session, user_id)
        /\ reply' = Reply("create_new_session", user_id, Len(chat_session) + 1,
                          "created", FALSE, <<>>)
    /\ UNCHANGED chat_message
    /\ HistoryIdle

\* the stream of an accepted request: stream_chat_response on session_id
Accepted(user_id, asked, session_id, outcome) ==
    /\ Len(StoredBy(session_id, outcome)) <= MaxMessages
    /\ chat_message' = StoredBy(session_id, outcome)
    /\ reply' = Reply("chat_stream", user_id, asked,
                      IF outcome = "returns" THEN "complete" ELSE "error", TRUE, <<>>)

\* POST /chat/stream
chat_stream ==
    /\ \E user_id \in Users, session_id \in RequestIds, message \in {"", "hi"},
          outcome \in {"returns", "raises"} :
        IF message = ""
        THEN /\ reply' = Reply("chat_stream", user_id, session_id,
                               "Message cannot be empty", FALSE, <<>>)
             /\ UNCHANGED <<chat_session, chat_message>>
        ELSE IF session_id \notin {NoId, 0}
        THEN IF get_session(session_id, AnyUser).user_id # user_id
             THEN /\ reply' = Reply("chat_stream", user_id, session_id,
                                    "Session not found or access denied", FALSE, <<>>)
                  /\ UNCHANGED <<chat_session, chat_message>>
             ELSE /\ Accepted(user_id, session_id, session_id, outcome)
                  /\ UNCHANGED chat_session
        ELSE /\ Len(chat_session) < MaxSessions
             /\ chat_session' = Append(chat_session, user_id)
             /\ Accepted(user_id, session_id, Len(chat_session) + 1, outcome)
    /\ HistoryIdle

\* GET /sessions/{session_id}/messages
get_messages ==
    /\ \E user_id \in Users, session_id \in RequestIds \ {NoId} :
        reply' = IF get_session(session_id, user_id) = NoSession
                 THEN Reply("get_messages", user_id, session_id, "Session not found",
                            FALSE, <<>>)
                 ELSE Reply("get_messages", user_id, session_id, "ok", FALSE,
                            get_session_messages(session_id, user_id))
    /\ UNCHANGED <<chat_session, chat_message>>
    /\ HistoryIdle

NextHistory ==
    \/ create_new_session
    \/ chat_stream
    \/ get_messages

SpecHistory == InitHistory /\ [][NextHistory]_vars

(***************************************************************************)
(* Login sessions: POST /auth/login, POST /auth/logout and require_auth    *)
(* (api/auth.py) over the user_session table (services/auth.py; its        *)
(* functions carry the prefix auth_ here, chat_history.py has a            *)
(* get_session of its own).                                                *)
(***************************************************************************)
\* logins the model lets the table grow to, and days it lets pass
MaxLogins == 2
MaxClock == 8
SESSION_DURATION_DAYS == 7

\* a session id: 0 is the empty / missing value, k > 0 the k-th token that
\* secrets.token_hex returned; MaxLogins + 1 is a value never returned
SessionIds == 0..(MaxLogins + 1)
NoRow == [user_id |-> 0, expires_at |-> 0]
Row(session_id) ==
    IF session_id \in DOMAIN user_session THEN user_session[session_id] ELSE NoRow

\* a variant that does not look at expires_at
auth_get_session_IgnoresExpiry(session_id) ==
    IF session_id = 0 THEN NoRow
    ELSE Row(session_id)

\* SELECT user_id, expires_at FROM user_session
\* WHERE id = :session_id AND expires_at > NOW()
auth_get_session(session_id) ==
    IF session_id = 0 THEN NoRow
    ELSE IF Row(session_id).expires_at > clock THEN Row(session_id)
    ELSE NoRow

\* DELETE FROM user_session WHERE id = :session_id; result.rowcount > 0
auth_delete_session(session_id) ==
    IF session_id = 0 THEN [table |-> user_session, deleted |-> FALSE]
    ELSE [table |-> [k \in DOMAIN user_session |->
                        IF k = session_id THEN NoRow ELSE user_session[k]],
          deleted |-> Row(session_id) # NoRow]

\* session_id = cookie or X-Session-Id header; get_session; get_user_by_id
get_current_user(cookie, header) ==
    LET session_id == IF cookie # 0 THEN cookie ELSE header
    IN [session_id |-> session_id, user_id |-> auth_get_session(session_id).user_id]

InitLogin ==
    /\ IdleLogin
    /\ IdleSchema
    /\ IdleStream
    /\ IdleHistory
    /\ IdleAudit
    /\ settings = ReferenceSettings
    /\ sql_in = <<>> /\ vphase = "idle"
    /\ vs = Pending /\ vc = NotRun /\ sq = NotAsked /\ vs2 = Pending
    /\ IdleFlow
    /\ IdleIntent
    /\ IdleServices

LoginIdle == UNCHANGED <<schema_result, svars, hvars, audit_log,
                         fvars, vvars, ivars, dvars, cvars>>

\* POST /auth/login: authenticate_user, then create_session for the user
login ==
    /\ Len(user_session) < MaxLogins
    /\ \E user_id \in Users, success \in BOOLEAN :
        LET session_id == Len(user_session) + 1
        IN IF success
           THEN /\ user_session' = Append(user_session,
                       [user_id |-> user_id, expires_at |-> clock + SESSION_DURATION_DAYS])
                /\ history' = [history EXCEPT !.created = Append(@, clock)]
                /\ auth' = [op |-> "login", session_id |-> session_id, ok |-> TRUE,
                            user_id |-> user_id, deleted |-> FALSE]
           ELSE /\ auth' = [op |-> "login", session_id |-> 0, ok |-> FALSE,
                            user_id |-> 0, deleted |-> FALSE]
                /\ UNCHANGED <<user_session, history>>
    /\ UNCHANGED clock
    /\ LoginIdle

\* POST /auth/logout: delete_session(session_id) when the cookie is there
logout ==
    /\ \E session_id \in SessionIds :
        LET done == auth_delete_session(session_id)
        IN /\ user_session' = done.table
           /\ history' = IF done.deleted
                         THEN [history EXCEPT !.deleted = @ \cup {session_id}]
                         ELSE history
           /\ auth' = [op |-> "logout", session_id |-> session_id, ok |-> TRUE,
                       user_id |-> 0, deleted |-> done.deleted]
    /\ UNCHANGED clock
    /\ LoginIdle

\* Depends(require_auth) of a request that carries a cookie and a header
require_auth ==
    /\ \E cookie \in SessionIds, header \in SessionIds :
        LET user == get_current_user(cookie, header)
        IN auth' = [op |-> "require_auth", session_id |-> user.session_id,
                    ok |-> user.user_id # 0, user_id |-> user.user_id, deleted |-> FALSE]
    /\ UNCHANGED <<user_session, clock, history>>
    /\ LoginIdle

\* a day passes
Tick ==
    /\ clock < MaxClock
    /\ clock' = clock + 1
    /\ UNCHANGED <<user_session, history, auth>>
    /\ LoginIdle

NextLogin ==
    \/ login
    \/ logout
    \/ require_auth
    \/ Tick

SpecLogin == InitLogin /\ [][NextLogin]_vars

(***************************************************************************)
(* POST /chat (chat.py) with the stub router (stub_sql.py).                *)
(***************************************************************************)
HasAny(q, keywords) == \E k \in keywords : ContainsPattern(q, k)

route_intent(q) ==
    IF /\ HasAny(q, {<<"top", "product">>, <<"best", "product">>, <<"top", "selling">>})
       /\ HasAny(q, {<<"revenue">>, <<"sales">>, <<"selling">>})
    THEN Some(<<Frag(SelectN(<<Col("product_name"), Col("total_revenue")>>,
                             <<Tbl("sales"), Tbl("product")>>, LimitN(Lit("int", 10)), NoneNode))>>)
    ELSE IF /\ HasAny(q, {<<"revenue">>, <<"sales">>})
            /\ HasAny(q, {<<"territory">>, <<"region">>, <<"area">>})
    THEN Some(<<Frag(SelectN(<<Col("territory_name"), Col("total_revenue")>>,
                             <<Tbl("sales"), Tbl("territory")>>, NoLimit, NoneNode))>>)
    ELSE IF HasAny(q, {<<"show", "sales">>, <<"list", "sales">>, <<"recent", "sales">>,
                       <<"all", "sales">>, <<"sales", "data">>})
    THEN Some(<<Frag(SelectN(<<Col("id"), Col("product_name")>>,
                             <<Tbl("sales"), Tbl("product"), Tbl("territory"), Tbl("hcp")>>,
                             LimitN(Lit("int", 50)), NoneNode))>>)
    ELSE IF HasAny(q, {<<"list", "product">>, <<"all", "product">>, <<"show", "product">>,
                       <<"what", "product">>})
    THEN Some(<<Frag(SelectN(<<Col("id"), Col("name")>>, <<Tbl("product")>>, NoLimit, NoneNode))>>)
    ELSE IF HasAny(q, {<<"hcp">>, <<"doctor">>, <<"healthcare">>, <<"physician">>})
    THEN Some(<<Frag(SelectN(<<Col("id"), Col("name")>>, <<Tbl("hcp"), Tbl("territory")>>,
                             NoLimit, NoneNode))>>)
    ELSE IF HasAny(q, {<<"list", "territor">>, <<"all", "territor">>, <<"show", "territor">>,
                       <<"what", "territor">>})
    THEN Some(<<Frag(SelectN(<<Col("id"), Col("name")>>, <<Tbl("territory")>>, NoLimit, NoneNode))>>)
    ELSE NoneText

ChatRoute ==
    /\ flow = "chat" /\ pc = "route_intent"
    /\ LET sql == route_intent(question)
       IN IF ~sql.some
          THEN /\ result' = Finish(Answer("clarification", NoReason, <<>>), NoneText, 0, 0)
               /\ audit_log' = Append(audit_log,
                                       AuditRecord(NoneText, <<"Needs clarification">>))
               /\ pc' = "done"
               /\ UNCHANGED st
          ELSE /\ st' = [st EXCEPT !.sql_candidate = sql]
               /\ pc' = "validate_sql"
               /\ UNCHANGED <<result, audit_log>>
    /\ UNCHANGED <<flow, question, llm_available, exec_log, gen_log, val_log>>
    /\ UNCHANGED <<vvars, ivars, dvars, cvars, schema_result, svars, hvars, lvars>>

ChatValidate ==
    /\ flow = "chat" /\ pc = "validate_sql"
    /\ val_log' = Append(val_log, ValCall("validate_sql", st.sql_candidate.text))
    /\ LET policy == validate_sql(st.sql_candidate.text, ReferenceSettings)
       IN IF policy.ok
          THEN /\ st' = [st EXCEPT !.validated = Some(policy.sql)]
               /\ pc' = "execute"
               /\ UNCHANGED <<result, audit_log>>
          ELSE /\ result' = Finish(Answer("policy-violation", NoReason, <<policy.err>>),
                                   st.sql_candidate, 0, 0)
               /\ audit_log' = Append(audit_log,
                       AuditRecord(st.sql_candidate, <<"SQL Policy Violation", policy.err>>))
               /\ pc' = "done"
               /\ st' = [st EXCEPT !.validation_errors = <<policy.err>>]
    /\ UNCHANGED <<flow, question, llm_available, exec_log, gen_log>>
    /\ UNCHANGED <<vvars, ivars, dvars, cvars, schema_result, svars, hvars, lvars>>

\* conn.execute(text(validated_sql)); fetchall(): every row, no cap
ChatExecute ==
    /\ flow = "chat" /\ pc = "execute"
    /\ \E out \in ExecOutcomes :
         /\ exec_log' = Append(exec_log, Handed(st.validated.text, st.validated))
         /\ IF out.ok
            THEN /\ st' = [st EXCEPT !.rows = out.rows, !.row_count = out.rows]
                 /\ result' = Finish(Answer("summary", NoReason, <<>>), st.validated,
                                     out.rows, out.rows)
                 /\ audit_log' = Append(audit_log, AuditRecord(st.validated, <<>>))
            ELSE /\ st' = [st EXCEPT !.execution_error = out.error]
                 /\ result' = Finish(Answer("execution-error", NoReason, <<out.error>>),
                                     st.validated, 0, 0)
                 /\ audit_log' = Append(audit_log,
                         AuditRecord(st.validated, <<"Execution Error", out.error>>))
    /\ pc' = "done"
    /\ UNCHANGED <<flow, question, llm_available, gen_log, val_log>>
    /\ UNCHANGED <<vvars, ivars, dvars, cvars, schema_result, svars, hvars, lvars>>

(***************************************************************************)
(* The request flows.                                                      *)
(***************************************************************************)
EntryPoint(f) ==
    CASE f = "workflow" -> "preprocess"
      [] f = "streaming" -> "analyzing_question"
      [] f = "chat" -> "route_intent"

Init ==
    /\ flow \in {"workflow", "streaming", "chat"}
    /\ pc = EntryPoint(flow)
    /\ question \in Questions
    /\ llm_available \in BOOLEAN
    /\ st = InitialState
    /\ result = NoResult
    /\ exec_log = <<>>
    /\ gen_log = <<>>
    /\ val_log = <<>>
    /\ IdleValidate
    /\ IdleIntent
    /\ IdleServices
    /\ IdleExtras

Next ==
    \/ preprocess_node
    \/ scope_policy_node
    \/ clarifying_questions_node
    \/ schema_grounding_node
    \/ generate_sql_node
    \/ validate_sql_node
    \/ fix_retry_node
    \/ execute_query_node
    \/ finalize_response_node
    \/ StreamAnalyze
    \/ StreamAttempt
    \/ StreamAfterLoop
    \/ StreamExecute
    \/ StreamSummarize
    \/ ChatRoute
    \/ ChatValidate
    \/ ChatExecute

Spec == Init /\ [][Next]_vars

\* a request that has not ended has a step to take
Running == pc # "done"

\* workflow.invoke, the runner's coroutine and the /chat handler run every
\* step to its end, so a request that can take a step takes it: weak fairness
\* of Next, with its enabling condition written out as Running
SpecFair == Spec /\ ([]<>(~Running) \/ []<><<Next>>_vars)

\* the two endpoints that write audit records: a POST /chat request, or the
\* stream of an accepted POST /chat/stream request
InitAudit ==
    \/ Init /\ flow = "chat"
    \/ InitStream

NextAudit ==
    \/ ChatRoute
    \/ ChatValidate
    \/ ChatExecute
    \/ NextStream

SpecAudit == InitAudit /\ [][NextAudit]_vars

(***************************************************************************)
(* Properties of the request flows (Spec), of the validators               *)
(* (SpecValidate, SpecPolicy) and of the intent checks (SpecIntent).       *)
(***************************************************************************)
\* the statement the input text holds, as the validators parse it
InputTree == ParseOne(RStripSemi(Strip(sql_in)))
SingleStatement == ~HasSemi(RStripSemi(Strip(sql_in))) /\ InputTree.t # "ParseError"
PolicyRan == vphase \in {"policy", "complete"}
ErrorsOf(r) == {r.errors[i] : i \in 1..Len(r.errors)}
NodesOf(tree) == {Walk(tree)[i].node : i \in 1..Len(Walk(tree))}

\* the LIMIT clause of the outermost statement (through parentheses)
RECURSIVE OuterLimit(_)
OuterLimit(tree) ==
    IF Arg(tree, "limit").t = "Limit" THEN Arg(tree, "limit")
    ELSE IF tree.t = "Subquery" THEN OuterLimit(Arg(tree, "this"))
    ELSE NoneNode

IsIntLimit(l) == l.t = "Limit" /\ Arg(l, "expression").t = "Literal"
                 /\ Arg(l, "expression").name = "int"
LimitValue(l) == Arg(l, "expression").num
Min(a, b) == IF a <= b THEN a ELSE b

\* C1: every text handed to the execution layer is the text validation
\* returned for the current candidate; a candidate whose validation failed
\* is never executed, also once the retries are used up.
C1_OnlyValidatedSqlExecuted ==
    \A i \in 1..Len(exec_log) :
        /\ exec_log[i].validated.some
        /\ exec_log[i].validated.text = exec_log[i].sql

\* C2: every query validate_sql returns satisfies every safety rule: the
\* text it accepts, and the text it returns, pass validate_sql_complete.
C2_ValidatedIsFullySafe ==
    (vphase = "complete" /\ vs.ok) =>
        vc.is_valid /\ validate_sql_complete(vs.sql).is_valid

\* the positions of the first and last non-whitespace character of the input
NonWs == {i \in 1..Len(sql_in) : sql_in[i].c # "ws"}
LastNonWs == CHOOSE i \in NonWs : \A j \in NonWs : j <= i
DropOneSemi(s) == IF s # <<>> /\ s[Len(s)].c = "semi" THEN SubSeq(s, 1, Len(s) - 1) ELSE s

HasDml(tree) == \E n \in NodesOf(tree) : n.t \in {"Insert", "Update", "Delete", "Drop", "Create"}
IsDeniedCall(n) ==
    n.t = "Anonymous" /\ n.name \in {"pg_sleep", "Pg_Sleep", "PG_SLEEP", "sleep"}
\* a denylisted call comes earlier in the breadth-first walk than every DML node
DeniedCallBeforeDml(tree) ==
    LET w == Walk(tree)
    IN \E i \in 1..Len(w) :
         /\ IsDeniedCall(w[i].node)
         /\ \A j \in 1..i : w[j].node.t \notin {"Insert", "Update", "Delete", "Drop", "Create"}

IsStarItem(e) == e.t = "Star" \/ (e.t = "Column" /\ Arg(e, "this").t = "Star")
ProjectsStar(tree) ==
    \E n \in NodesOf(tree) :
        n.t = "Select" /\ \E i \in 1..Len(n.args) :
            n.args[i].arg = "expressions" /\ IsStarItem(n.args[i].node)

\* C5: a bare or qualified star in any projection list fails validation
\* with select-star.
C5_StarIsRejected ==
    (vphase = "complete" /\ InputTree.t # "ParseError" /\ ProjectsStar(InputTree)) =>
        /\ validate_no_select_star(sql_in).kind = "select-star"
        /\ ~vc.is_valid /\ \E e \in ErrorsOf(vc) : e.kind = "select-star"

BlockedSpellings == {"audit_log", "Audit_Log", "AUDIT_LOG"}
TablesOf(tree) == {n \in NodesOf(tree) : n.t = "Table"}

\* C6: a reference to the blocked table, in any letter case and anywhere in
\* the statement, fails validation with a disallowed-table violation raised
\* by the blocklist (consulted before the allowlist).
C6_BlockedTableRejected ==
    (vphase = "complete" /\ InputTree.t # "ParseError") =>
        \A tb \in TablesOf(InputTree) :
            tb.name \in BlockedSpellings =>
                /\ ~vc.is_valid
                /\ [kind |-> "disallowed-table", arg |-> "audit_log", why |-> "blocked"]
                      \in ErrorsOf(vc)

\* the blocked table, referenced in a join or a subquery, was rejected
C6_Witness ==
    /\ vphase = "complete" /\ InputTree.t = "Select"
    /\ \E tb \in TablesOf(InputTree) : tb.name = "Audit_Log"
    /\ Arg(Arg(InputTree, "from"), "this").name # "Audit_Log"
    /\ \E e \in ErrorsOf(vc) : e.why = "blocked"

\* C7: every table reference whose lowercased name is not in the allowlist
\* yields a disallowed-table violation naming it; a statement whose table
\* references are all allowlisted yields none.
C7_UnknownTableRejected ==
    (vphase = "complete" /\ InputTree.t # "ParseError") =>
        /\ \A tb \in TablesOf(InputTree) :
              Lower(tb.name) \notin ALLOWED_SCHEMA =>
                  /\ ~vc.is_valid
                  /\ \E e \in ErrorsOf(vc) :
                        e.kind = "disallowed-table" /\ e.arg = Lower(tb.name)
        /\ (\A tb \in TablesOf(InputTree) : Lower(tb.name) \in ALLOWED_SCHEMA)
              => \A e \in ErrorsOf(vc) : e.kind # "disallowed-table"

\* an unknown table was named in a violation
C7_Witness ==
    /\ vphase = "complete"
    /\ \E tb \in TablesOf(InputTree) : tb.name = "secret_table"
    /\ \E e \in ErrorsOf(vc) : e.kind = "disallowed-table" /\ e.arg = "secret_table"

\* C8: the outermost statement of every returned query carries
\* LIMIT min(requested or default_limit, max_limit).
C8_OuterLimitIsMin ==
    (PolicyRan /\ vs.ok) =>
        LET asked == OuterLimit(InputTree)
            got == OuterLimit(ParseOne(vs.sql))
        IN /\ IsIntLimit(got)
           /\ LimitValue(got) =
                 Min(IF IsIntLimit(asked) THEN LimitValue(asked) ELSE settings.default_limit,
                     settings.max_limit)

\* C9: an accepted SELECT without a LIMIT clause is returned with
\* LIMIT default_limit.
C9_DefaultLimitAdded ==
    (PolicyRan /\ vs.ok /\ OuterLimit(InputTree).t = "None") =>
        LET got == OuterLimit(ParseOne(vs.sql))
        IN IsIntLimit(got) /\ LimitValue(got) = settings.default_limit

\* the statement passes every step of validate_sql that precedes the limit
NoEarlierViolation ==
    vs.err.kind \notin {"multi-statement", "syntax-error", "forbidden-statement-type",
                        "forbidden-function"}

\* C10: a statement with LIMIT n, n an integer literal above max_limit, is
\* not refused on account of its limit and is returned with LIMIT max_limit.
C10_HighLimitCapped ==
    (PolicyRan /\ IsIntLimit(OuterLimit(InputTree))
        /\ LimitValue(OuterLimit(InputTree)) > settings.max_limit /\ NoEarlierViolation) =>
        /\ vs.ok
        /\ IsIntLimit(OuterLimit(ParseOne(vs.sql)))
        /\ LimitValue(OuterLimit(ParseOne(vs.sql))) = settings.max_limit

\* LIMIT 150 was capped to a maximum of 100
C10_Witness ==
    /\ PolicyRan /\ vs.ok /\ settings.max_limit = 100
    /\ LimitValue(OuterLimit(InputTree)) = 150
    /\ LimitValue(OuterLimit(ParseOne(vs.sql))) = 100

\* C11: an accepted statement with LIMIT n, n an integer literal with
\* 0 <= n <= max_limit, is returned with LIMIT n.
C11_ReasonableLimitKept ==
    (PolicyRan /\ vs.ok /\ IsIntLimit(OuterLimit(InputTree))
        /\ LimitValue(OuterLimit(InputTree)) >= 0
        /\ LimitValue(OuterLimit(InputTree)) <= settings.max_limit) =>
        /\ IsIntLimit(OuterLimit(ParseOne(vs.sql)))
        /\ LimitValue(OuterLimit(ParseOne(vs.sql))) = LimitValue(OuterLimit(InputTree))

\* LIMIT 50 was returned as LIMIT 50 under a maximum of 100
C11_Witness ==
    /\ PolicyRan /\ vs.ok /\ settings.max_limit = 100
    /\ IsIntLimit(OuterLimit(InputTree)) /\ LimitValue(OuterLimit(InputTree)) = 50
    /\ LimitValue(OuterLimit(ParseOne(vs.sql))) = 50

\* a LIMIT whose expression is not a non-negative integer literal
IsBadLimit(n) ==
    /\ n.t = "Limit"
    /\ \/ Arg(n, "expression").t # "Literal"
       \/ Arg(n, "expression").name # "int"
       \/ Arg(n, "expression").num < 0

\* C12: a statement with a LIMIT that is negative, parameterized, a
\* non-integer literal or any other expression fails validate_sql with
\* invalid-limit (when no earlier step rejects it); it is never returned.
C12_BadLimitRejected ==
    (PolicyRan /\ SingleStatement /\ NoEarlierViolation
        /\ \E n \in NodesOf(InputTree) : IsBadLimit(n)) =>
        ~vs.ok /\ vs.err.kind = "invalid-limit"

\* C13: validate_sql applied to a query it returned succeeds and returns
\* the same query.
C13_RevalidationIsIdentity ==
    vphase = "again" => vs2.ok /\ vs2.sql = vs.sql

ViolationKinds ==
    {"multi-statement", "syntax-error", "forbidden-statement-type", "forbidden-function",
     "invalid-limit"}

\* the first LIMIT of the walk, if there is one, is a non-negative integer literal
FirstLimitIsSound(tree) ==
    LET w == Walk(tree)
        at == {i \in 1..Len(w) : w[i].node.t = "Limit"}
    IN at # {} => ~IsBadLimit(w[CHOOSE i \in at : \A j \in at : i <= j].node)

\* C14: validate_sql either returns a query, and then the text passed every
\* step, or raises one of the listed violations and returns nothing;
\* is_safe_query answers (True, None) exactly when validate_sql returns,
\* and (False, message) with the violation's message otherwise.
C14_ReturnsOrRaises ==
    PolicyRan =>
        /\ vs.ok => /\ vs.err = NoErr /\ vs.sql # <<>>
                    /\ SingleStatement
                    /\ \/ InputTree.t = "Select"
                       \/ (InputTree.t = "Subquery" /\ Arg(InputTree, "this").t = "Select")
                    /\ ~HasDml(InputTree)
                    /\ \A n \in NodesOf(InputTree) : ~IsDeniedCall(n)
                    /\ FirstLimitIsSound(InputTree)
        /\ ~vs.ok => vs.sql = <<>> /\ vs.err.kind \in ViolationKinds
        /\ sq # NotAsked =>
              /\ sq.safe <=> vs.ok
              /\ sq.safe => sq.err = NoErr
              /\ ~sq.safe => sq.err = vs.err /\ sq.err.kind \in ViolationKinds

\* is_safe_query answered (False, message) for a text validate_sql refused
\* for a denylisted function
C14_Witness ==
    /\ sq # NotAsked /\ ~sq.safe /\ ~vs.ok
    /\ sq.err.kind = "forbidden-function"

DeniedCalls(tree) == {n \in NodesOf(tree) : IsDeniedCall(n)}
\* the name of the first denylisted call of the walk, in upper case
FirstDeniedCall(tree) ==
    LET w == Walk(tree)
        at == {i \in 1..Len(w) : IsDeniedCall(w[i].node)}
    IN Upper(w[CHOOSE i \in at : \A j \in at : i <= j].node.name)

RECURSIVE Wrappers(_)
Wrappers(tree) ==
    IF tree.t = "Subquery" THEN 1 + Wrappers(Arg(tree, "this")) ELSE 0
RECURSIVE Unwrapped(_)
Unwrapped(tree) ==
    IF tree.t = "Subquery" THEN Unwrapped(Arg(tree, "this")) ELSE tree

\* C16: validate_sql accepts a statement only if its top level is a SELECT or
\* exactly one parenthesized wrapper directly around a SELECT; every other
\* top-level node, a SELECT under two or more wrappers included, fails with
\* forbidden-statement-type.
C16_TopLevelShape ==
    (PolicyRan /\ SingleStatement) =>
        LET shaped == Unwrapped(InputTree).t = "Select" /\ Wrappers(InputTree) <= 1
        IN /\ vs.ok => shaped
           /\ ~shaped => ~vs.ok /\ vs.err.kind = "forbidden-statement-type"

\* a SELECT under two wrappers was refused for its statement type
C16_Witness ==
    /\ PolicyRan /\ SingleStatement
    /\ Unwrapped(InputTree).t = "Select" /\ Wrappers(InputTree) = 2
    /\ ~vs.ok /\ vs.err.kind = "forbidden-statement-type"

\* the intent checks of the request have run on the normalized question
IntentChecked ==
    \/ flow = "workflow" /\ pc \notin {"preprocess", "scope_policy"}
    \/ flow = "streaming" /\ pc # "analyzing_question" /\ llm_available
\* the reason of the check that matched: bulk-dump first, then sensitive-topic
MatchedReason(q) ==
    IF check_dump_request(q).hit THEN check_dump_request(q).reason
    ELSE check_sensitive_request(q).reason
IntentMatched ==
    /\ IntentChecked
    /\ \/ check_dump_request(Normalize(question)).hit
       \/ check_sensitive_request(Normalize(question)).hit

\* C17: once the bulk-dump or the sensitive-topic check has matched the
\* normalized question, the request is refused: the generator, the validators
\* and the execution layer are never invoked, the request goes straight to
\* its end, and the response carries no SQL, no rows and the refusal reason.
C17_MatchEndsRefused ==
    IntentMatched =>
        /\ gen_log = <<>> /\ val_log = <<>> /\ exec_log = <<>>
        /\ pc \in {"finalize", "done"}
        /\ result.done =>
             /\ result.sql = NoneText
             /\ result.rows = 0 /\ result.row_count = 0
             /\ result.answer.kind = "refusal"
             /\ result.answer.reason = MatchedReason(Normalize(question))
             /\ result.answer.reason # NoReason

\* run_agent answered a question about passwords with the paired reason
C17_Witness ==
    /\ flow = "workflow" /\ IntentMatched /\ result.done
    /\ ~check_dump_request(Normalize(question)).hit
    /\ result.answer = Answer("refusal", "I cannot provide password information.", <<>>)

\* the listed pattern occurs in the lower-cased text of the question
Lists(pattern) == IsSubstring(LowerText(pattern), LowerText(question.words))
DumpListed == \E i \in 1..Len(dump_patterns) : Lists(dump_patterns[i])
SensitiveListed == {i \in 1..Len(sensitive_patterns) : Lists(sensitive_patterns[i].pattern)}

\* C18: check_dump_request and check_sensitive_request answer (True, reason),
\* the reason non-empty and their own, exactly when the lower-cased question
\* contains one of their listed substrings, and (False, None) otherwise; the
\* sensitive-topic reason is the one paired with the first matching pattern
\* of the list.
C18_IntentVerdicts ==
    /\ iphase \in {"dump", "sensitive"} =>
         IF DumpListed
         THEN dump_result.hit /\ dump_result.reason = DumpReason /\ DumpReason # NoReason
         ELSE dump_result = [hit |-> FALSE, reason |-> NoReason]
    /\ iphase = "sensitive" =>
         IF SensitiveListed # {}
         THEN /\ sensitive_result.hit
              /\ \E i \in SensitiveListed :
                   /\ \A j \in SensitiveListed : i <= j
                   /\ sensitive_result.reason = sensitive_patterns[i].reason
              /\ sensitive_result.reason \notin {NoReason, DumpReason}
         ELSE sensitive_result = [hit |-> FALSE, reason |-> NoReason]

\* a question naming a secret before passwords got the password reason, and
\* no bulk-dump verdict
C18_Witness ==
    /\ iphase = "sensitive"
    /\ question.words = <<"Secret", "Passwords", "allowed">>
    /\ sensitive_result = [hit |-> TRUE, reason |-> "I cannot provide password information."]
    /\ dump_result = [hit |-> FALSE, reason |-> NoReason]

\* fewer than 3 words, or a vague word and fewer than 6 words
TooShortOrVague ==
    \/ Len(question.words) < 3
    \/ /\ \E p \in {"help", "something", "anything", "whatever", "stuff"} : Lists(<<p>>)
       /\ Len(question.words) < 6

\* C19: the intent check of run_agent flags the questions that are not
\* refused and have fewer than 3 words, or a vague word and fewer than 6
\* words; a flagged request ends ambiguous: clarifying questions are
\* returned, the response SQL is null, and neither the generator nor the
\* execution layer is invoked.
C19_AmbiguousEndsWithQuestions ==
    (flow = "workflow" /\ pc \notin {"preprocess", "scope_policy"}) =>
        /\ st.ambiguity_flag <=> (~st.refusal_flag /\ TooShortOrVague)
        /\ st.ambiguity_flag =>
             /\ gen_log = <<>> /\ exec_log = <<>>
             /\ pc \in {"clarify", "finalize", "done"}
             /\ st.follow_up_questions
             /\ result.done =>
                  /\ result.sql = NoneText
                  /\ result.answer.kind = "clarification"

\* run_agent answered `show me something' with clarifying questions
C19_Witness ==
    /\ flow = "workflow" /\ result.done /\ st.ambiguity_flag
    /\ Len(question.words) = 3
    /\ st.follow_up_questions /\ result.sql = NoneText
    /\ gen_log = <<>> /\ exec_log = <<>>

\* C20: a request invokes the generator (generate and fix calls together) at
\* most 3 times, the first generation included.
C20_AtMostThreeGenerations == Len(gen_log) <= 3

\* the retry budget is spent and the latest candidate did not pass validation
\* (or there is none), with the LLM configured
RetriesExhausted ==
    /\ llm_available /\ ~st.refusal_flag /\ ~st.ambiguity_flag
    /\ st.validated = NoneText
    /\ \/ /\ flow = "workflow" /\ pc \in {"execute", "finalize", "done"}
          /\ st.attempts_remaining = 0
       \/ /\ flow = "streaming" /\ pc \in {"after_loop", "done"}
          /\ st.attempt = max_attempts

\* C21: a request whose retry budget is exhausted on a candidate that fails
\* validation ends with the could-not-generate-a-valid-query answer carrying
\* the last violations, and with no rows.
C21_ExhaustedSurfacesViolation ==
    (RetriesExhausted /\ result.done) =>
        /\ result.answer.kind = "invalid-query"
        /\ result.answer.errors # <<>>
        /\ result.answer.errors = st.validation_errors
        /\ result.rows = 0 /\ result.row_count = 0

\* what is left of the request's retry budget
BudgetLeft ==
    IF flow = "streaming" THEN max_attempts - st.attempt ELSE st.attempts_remaining
\* this step handed a statement to the execution layer, which raised
ExecutionFailedNow ==
    /\ Len(exec_log') = Len(exec_log) + 1
    /\ \/ flow = "workflow" /\ st'.execution_error # NoErr
       \/ flow = "streaming" /\ result'.done /\ result'.answer.kind = "execution-error"
\* the request goes back to the generator
GoesToRetry ==
    \/ flow = "workflow" /\ pc' = "fix_retry"
    \/ flow = "streaming" /\ pc' = "generating_sql"

\* C22: the retry budget is one counter per request, shared by validation and
\* execution failures: an execution failure with budget left sends the
\* request to fix-and-retry, a retry takes exactly 1 from attempts_remaining,
\* and no other step changes it.
C22_SharedRetryBudget ==
    [][/\ (flow \in {"workflow", "streaming"} /\ ExecutionFailedNow /\ BudgetLeft > 0)
            => GoesToRetry
       /\ st'.attempts_remaining # st.attempts_remaining
            => /\ pc = "fix_retry"
               /\ st'.attempts_remaining = st.attempts_remaining - 1]_vars

\* C23: when the validate step ends with no validation errors, the next step
\* of the request is the execution of that validated candidate, on the first
\* cycle and on every retry cycle.
C23_ValidatedIsExecutedNext ==
    [][/\ (flow \in {"workflow", "chat"} /\ pc = "validate_sql" /\ st'.validation_errors = <<>>)
            => pc' = "execute"
       /\ (flow = "streaming" /\ pc = "generating_sql" /\ st'.validation_errors = <<>>)
            => pc' = "after_loop"
       /\ (flow = "streaming" /\ pc = "after_loop" /\ st.validation_errors = <<>>)
            => pc' = "executing_sql"
       /\ (pc \in {"execute", "executing_sql"} /\ st.validated # NoneText)
            => exec_log' = Append(exec_log, Handed(st.validated.text, st.validated))]_vars

\* min(row_cap, max_limit) with execute_query's default row_cap of 200
EffectiveLimit == Min(200, max_limit)

\* C24: every path that executes generated SQL hands back at most
\* min(row_cap, max_limit) rows, the first of the database result, however
\* many rows the database returned.
C24_RowsCapped ==
    /\ st.rows <= EffectiveLimit
    /\ result.rows <= EffectiveLimit

\* C25: every execution of generated SQL is preceded, on the same session, by
\* the setting of a statement timeout, in execute_query and in /chat.
C25_TimeoutBeforeExecution ==
    \A i \in 1..Len(db_log) :
        db_log[i] = "generated SQL" =>
            \E j \in 1..(i - 1) : db_log[j] = "SET statement_timeout"

C27_AuditNeverRaises ==
    (svc.fn = "insert_audit_log" /\ epc = "done") => ret.status = "returned"

\* C28: when a non-policy exception ends a call, the message handed towards
\* the user is generic and does not contain the exception's own text.
C28_NoInternalTextInMessages ==
    epc = "done" => ~ret.internal

\* what call i returns or raises when it runs alone
Alone(i) ==
    IF calls[i].fn = "validate_sql" THEN validate_sql(calls[i].sql, settings)
    ELSE validate_sql_complete(calls[i].sql)

\* C29: under every interleaving of validation calls, a call that has ended
\* has the outcome it has when run alone on its text, and no step changes
\* the allowlist, the blocklist or the limit configuration.
C29_ConcurrentValidationIsIsolated ==
    /\ [](\A i \in DOMAIN calls : calls[i].pc = "done" => calls[i].out = Alone(i))
    /\ [][schema' = schema /\ settings' = settings]_vars

\* one call was refused for its statement type while another call, on a
\* different text, was between its parse and its limit step
C29_Witness ==
    /\ calls # <<>>
    /\ calls[1].pc = "done" /\ calls[1].out = Raised(Err("forbidden-statement-type", "top-level"))
    /\ calls[2].fn = "validate_sql" /\ calls[2].pc = "check_danger"
    /\ calls[2].sql # calls[1].sql

\* what is left of the retry budget of request i
BudgetLeftOf(i) ==
    IF calls[i].fn = "run_agent" THEN frames[Frame(i)].attempts_remaining
    ELSE max_attempts - frames[Frame(i)].attempt

\* C30: each of two concurrent requests starts with the full retry budget and
\* has spent of it only its own retried cycles, and a step of one request
\* leaves the other's state (budget, violations, candidate) and response as
\* they were.
C30_RetryStateIsPerRequest ==
    /\ [](\A i \in DOMAIN calls :
            calls[i].pc # "start" => BudgetLeftOf(i) = max_attempts - calls[i].spent)
    /\ [][\A i, j \in DOMAIN calls :
            (i # j /\ calls'[i] # calls[i]) =>
                (frames'[j] = frames[j] /\ calls'[j] = calls[j])]_vars

\* a run_agent request has used up its budget on failures and holds a
\* violation while the other request, untouched by them, has answered with a
\* summary of its rows on its first cycle
C30_Witness ==
    /\ calls # <<>>
    /\ calls[1].fn = "run_agent" /\ calls[1].pc = "finalize"
    /\ frames[1].attempts_remaining = 0 /\ frames[1].validation_errors # <<>>
    /\ calls[2].pc = "done" /\ calls[2].spent <= 1
    /\ calls[2].out.answer.kind = "summary" /\ calls[2].out.rows = 2
    /\ frames[2].validation_errors = <<>>

SchemaChecked == schema_result # NotValidated /\ ParseOne(sql_in).t # "ParseError"
ColumnRefs == {e.node : e \in {FindAll(ParseOne(sql_in), {"Column"})[i] :
                                 i \in 1..Len(FindAll(ParseOne(sql_in), {"Column"}))}}
Qualifier(column) == Lower(Arg(column, "table").name)
\* the table a qualifier stands for: the source that carries it as its alias
\* or, unaliased, as its name; else the table of that name
ResolvedTable(column) ==
    LET tables == FindAll(ParseOne(sql_in), {"Table"})
        hit == {i \in 1..Len(tables) :
                  LET alias == Lower(Arg(tables[i].node, "alias").name)
                  IN IF alias # "" THEN alias = Qualifier(column)
                     ELSE Lower(tables[i].node.name) = Qualifier(column)}
    IN IF hit = {} THEN Qualifier(column)
       ELSE Lower(tables[CHOOSE i \in hit : \A j \in hit : i <= j].node.name)
ColumnViolations ==
    {v \in {schema_result.violations[i] : i \in 1..Len(schema_result.violations)} :
        v.kind = "unknown-column"}

\* C31: validate_schema_references reports a violation for every column
\* reference whose table qualifier resolves to an allowed table that does not
\* list the lower-cased column; no unqualified column reference is reported;
\* and is_valid is true exactly when the list of violations is empty.
C31_QualifiedColumnsChecked ==
    /\ SchemaChecked =>
         /\ \A c \in ColumnRefs :
              (Qualifier(c) # "" /\ ResolvedTable(c) \in ALLOWED_SCHEMA
               /\ Lower(c.name) \notin AllowedColumns(ResolvedTable(c)))
                 => \E v \in ColumnViolations : v.arg = Lower(c.name)
         /\ \A v \in ColumnViolations :
              \E c \in ColumnRefs : Qualifier(c) # "" /\ v.arg = Lower(c.name)
                                    /\ v.why = Qualifier(c)
    /\ schema_result # NotValidated =>
         (schema_result.is_valid <=> schema_result.violations = <<>>)

\* what each step of validate_sql finds on the text, taken by itself: the
\* interior `;', the parse, the statement type, the scan, the limit
StepErrors ==
    LET s == RStripSemi(Strip(sql_in))
        parsed == ParseOne(s)
        parses == parsed.t # "ParseError"
    IN <<IF HasSemi(s) THEN Err("multi-statement", "") ELSE NoErr,
         IF parses THEN NoErr ELSE Err("syntax-error", ""),
         IF parses /\ ~TopLevelAllowed(parsed)
         THEN Err("forbidden-statement-type", "top-level") ELSE NoErr,
         IF parses THEN check_for_dangerous_operations(parsed) ELSE NoErr,
         IF parses THEN enforce_limit(parsed, settings.default_limit, settings.max_limit).err
         ELSE NoErr>>
FailingSteps == {i \in 1..5 : StepErrors[i].kind # "ok"}

\* C32: validate_sql checks in the order interior `;', parse, statement type,
\* scan for DDL/DML and forbidden functions, limit, and raises exactly the
\* violation of the first step that fails; it returns when none fails.
C32_FirstFailingStepReported ==
    PolicyRan =>
        IF FailingSteps = {} THEN vs.ok
        ELSE vs = Raised(StepErrors[CHOOSE i \in FailingSteps : \A j \in FailingSteps : i <= j])

\* a statement that is no SELECT and has an invalid limit was refused for its
\* statement type
C32_Witness ==
    /\ PolicyRan
    /\ FailingSteps = {3, 5}
    /\ vs = Raised(Err("forbidden-statement-type", "top-level"))

Regenerates == Len(gen_log') = Len(gen_log) + 1 /\ Len(gen_log) >= 1

\* C34: a retry invokes fix_sql with the candidate that just failed and the
\* violations or execution error of that cycle; generate_sql without feedback
\* is invoked again only when the failed cycle left no candidate.
C34_RetryFeedsErrorBack ==
    [][(Regenerates /\ Truthy(st.sql_candidate)) =>
          /\ st.validation_errors # <<>>
          /\ gen_log'[Len(gen_log')] =
                GenCall("fix_sql", st.sql_candidate.text, st.validation_errors)]_vars

\* the events the workflow task has emitted so far
Emitted == [k \in 1..task.emitted |-> Emit(k)]
StreamOver == sse.pc \in {"closed", "raised"}

\* C35: the stream of an accepted request is the session event, then the
\* events of the workflow task in the order it emitted them, each once, then
\* one terminal event (complete or error) at the end.
C35_StreamIsOrderedAndClosed ==
    /\ stream # <<>> => stream[1] = SessionEvent
    /\ \A i \in 1..Len(stream) : Terminal(stream[i]) => i = Len(stream)
    /\ LET body == SelectSeq(stream, LAMBDA e : e.type \in {"status", "token"})
       IN /\ body = SubSeq(Emitted, 1, Len(body))
          /\ (stream # <<>> /\ Terminal(stream[Len(stream)])) => body = Emitted
    /\ StreamOver => (stream # <<>> /\ Terminal(stream[Len(stream)]))

\* the request that was just answered named a session, by an integer id, that
\* does not exist or is owned by another user
NamesForeignSession ==
    /\ reply'.op \in {"chat_stream", "get_messages"}
    /\ reply'.session_id # NoId
    /\ get_session(reply'.session_id, reply'.user_id) = NoSession

\* C36: a streaming or message-history request naming a session that does not
\* exist or belongs to another user stores no message, does not run the
\* workflow, returns no messages, and is answered with access denied / not found.
C36_ForeignSessionIsRefused ==
    [][NamesForeignSession =>
          /\ chat_message' = chat_message
          /\ ~reply'.ran_workflow
          /\ reply'.messages = <<>>
          /\ reply'.status \in {"Session not found or access denied",
                                "Session not found"}]_vars

\* C37: every request writes exactly one audit record: each outcome of POST
\* /chat and each outcome of a streaming request calls insert_audit_log once,
\* and the record of a policy violation carries the rejected SQL and the
\* violation.
C37_OneAuditRecordPerRequest ==
    /\ Len(audit_log) <= 1
    /\ (flow = "chat" /\ pc = "done") =>
          /\ Len(audit_log) = 1
          /\ result.answer.kind = "policy-violation" =>
                audit_log[1] = AuditRecord(st.sql_candidate,
                                           <<"SQL Policy Violation", result.answer.errors[1]>>)
    /\ StreamOver => Len(audit_log) = 1

\* the ids create_session has returned
Created == 1..Len(history.created)

\* created, not deleted by delete_session, and younger than the session duration
Live(session_id) ==
    /\ session_id \in Created
    /\ session_id \notin history.deleted
    /\ clock < history.created[session_id] + SESSION_DURATION_DAYS

\* the step is a call of op, not the passing of a day
Answered(op) == auth'.op = op /\ clock' = clock

\* C38: a login-session id authenticates a request exactly when create_session
\* returned it, delete_session has not removed it and it has not expired;
\* delete_session returns True exactly when it removed an existing session,
\* and False for an unknown or empty id.
C38_SessionAuthenticatesWhileLive ==
    [][/\ Answered("require_auth") =>
            /\ auth'.ok <=> Live(auth'.session_id)
            /\ auth'.ok <=> auth_get_session(auth'.session_id) # NoRow
       /\ Answered("logout") =>
            /\ auth'.deleted <=> /\ auth'.session_id \in Created \ history.deleted
                                 /\ user_session'[auth'.session_id] = NoRow
            /\ auth'.session_id \notin Created => ~auth'.deleted]_vars

\* a request presenting a session that was created, never logged out, and has
\* expired is refused, while another session has been logged out
C38_Witness ==
    /\ auth.op = "require_auth" /\ ~auth.ok
    /\ auth.session_id \in Created \ history.deleted
    /\ history.deleted # {}

=============================================================================
